---- MODULE Spec2Model ----
(***************************************************************************)
(* A model of hefeijay/deviceagent.                                        *)
(*                                                                         *)
(*   - the TaskScheduler of src/scheduler/task_scheduler.py: the job map,  *)
(*     the tick loop, the worker pool executions and the next-run          *)
(*     computation (specification Spec; LoopSpec is Spec without           *)
(*     remove_task and update_task);                                       *)
(*   - the next-run computation alone, on drawn inputs (NextRunSpec);      *)
(*   - the streaming endpoint of src/api/device_api.py with the workflow   *)
(*     nodes of src/graph that push events into its queue (StreamSpec,     *)
(*     and StreamFairSpec for the liveness of the consumer loop);          *)
(*   - the schedule service of src/services/schedule_service.py and the    *)
(*     schedule tools of src/tools/feeder_tools.py (ToolSpec: the requests *)
(*     alone; ServiceSpec: the requests with the tick loop and workers);   *)
(*   - calls of add_task and update_task with their results (CallSpec);    *)
(*   - start() and stop() called from two threads, with every tick-loop    *)
(*     thread and worker pool they create (LifeSpec, LifeFairSpec);        *)
(*   - two jobs under one tick loop (PairSpec, PairFairSpec, and           *)
(*     SlowFairSpec, in which an action function may execute for ever);    *)
(*   - load_pending_tasks at startup over the persisted rows (LoadSpec);   *)
(*   - the FeederService of src/services/feeder_service.py, its login and  *)
(*     its retry wrapper, called from two threads (FeederSpec) and from    *)
(*     one caller at a time (FeederSeqSpec);                               *)
(*   - one run of the device workflow of src/graph, from the gate to the   *)
(*     end (PipelineSpec, and PipelineFairSpec for its termination).       *)
(*                                                                         *)
(* Time is counted in ticks of eight hours of wall-clock time in the       *)
(* configured zone: a day is DayLen = 3 ticks and the configured zone,     *)
(* Asia/Shanghai (UTC+8, no daylight saving), is TzOffset = 1 tick ahead   *)
(* of UTC.                                                                 *)
(***************************************************************************)
EXTENDS Integers, Sequences, FiniteSets, TLC

VARIABLES
    \* ---- TaskScheduler ----
    now,        \* the wall clock, datetime.now(tz), in ticks
    objs,       \* the ScheduledTask objects constructed so far (by identity)
    tasks,      \* TaskScheduler.tasks: task_id -> object (0: no entry)
    futures,    \* TaskScheduler.futures: task_id -> execution (0: no entry)
    execs,      \* the executions submitted to the ThreadPoolExecutor
    running,    \* TaskScheduler.running
    lock,       \* TaskScheduler.lock: "free" or its holder
    loopPc,     \* position of _scheduler_loop: "wait" or "pass"
    loopNow,    \* the local `now` of the current loop iteration
    loopTodo,   \* the entries of list(self.tasks.items()) not yet visited
    \* ---- next-run computation on drawn inputs ----
    nr,         \* the drawn job, the drawn clock and the computed results
    \* ---- streaming endpoint and workflow ----
    st,         \* the state of one /chat/stream request
    \* ---- callers of the scheduler and the schedule service ----
    db,         \* the persisted task records: task_id -> row (NoRow: none)
    ret,        \* the result of the call that returned in the last step
    life,       \* start() and stop(): their callers, the pools, the threads
    updates,    \* the number of update_task calls counted so far
    args,       \* the arguments each execution passed to execute_func
    load,       \* load_pending_tasks: its position, its rows, its count
    fs,         \* the FeederService instance and the calls in progress on it
    pl          \* one run of the device workflow: its DeviceState, its position

schedVars == <<now, objs, tasks, futures, execs, running, lock, loopPc, loopNow, loopTodo>>
auxVars == <<args, load, fs, pl>>
extVars == <<db, ret, life, updates, auxVars>>
vars == <<now, objs, tasks, futures, execs, running, lock, loopPc, loopNow, loopTodo, nr, st,
          db, ret, life, updates, args, load, fs, pl>>

(***************************************************************************)
(* Bounds of the model and constants of the program.                       *)
(***************************************************************************)
MaxTime == 2        \* the clock stops advancing at this tick
MaxObjs == 2        \* ScheduledTask objects constructed in one behaviour
MaxExecs == 2       \* executions submitted in one behaviour
DayLen == 3         \* timedelta(days=1), in ticks
TzOffset == 1       \* utcoffset of settings.TIMEZONE, in ticks
SCHEDULER_MAX_WORKERS == 10
NrMaxWall == 6      \* the drawn datetimes read 0..NrMaxWall on the wall clock
NrMaxClock == 6     \* the drawn clocks are 0..NrMaxClock
MaxLines == 1       \* SSE lines of one expert answer
MaxToolEvents == 1  \* tool callbacks of one agent run
MaxUpdates == 1     \* update_task calls counted in one behaviour

None == 0 - 1       \* Python's None where a datetime is expected
Ids == {"t1", "t2"}
OneId == {"t1"}     \* the id of the specifications with one job id
Callers == {"a", "b"}   \* the threads that call start(), stop() or the feeder
Modes == {"once", "daily"}
Devices == {"devA"}
FeedCounts == {2}

(***************************************************************************)
(* Datetimes handed to the scheduler: a wall-clock reading and a zone.     *)
(* off = None is a naive datetime; otherwise off is the utcoffset.         *)
(***************************************************************************)
DateTimes(walls) == [wall : walls, off : {None, 0, TzOffset}]

\* The datetimes the scheduler is called with: naive, UTC and zoned ones.
SchedTimes ==
    { [wall |-> 1, off |-> None], [wall |-> 1, off |-> 0], [wall |-> 4, off |-> TzOffset] }

\* tz.localize(dt) for a naive datetime, dt.astimezone(tz) otherwise: the
\* wall-clock reading of the same instant in the configured zone.
ToZone(dt) ==
    IF dt.off = None THEN dt.wall ELSE dt.wall - dt.off + TzOffset

DateOf(t) == t \div DayLen
TimeOfDay(t) == t % DayLen

\* scheduled_time.replace(year=now.year, month=now.month, day=now.day)
ReplaceDate(t, clock) == DateOf(clock) * DayLen + TimeOfDay(t)

NextDailyLate(scheduled_time, clock) ==
    LET next_time == ReplaceDate(scheduled_time, clock)
    IN  IF next_time < clock THEN next_time + DayLen ELSE next_time

\* The daily branch shared by _calculate_initial_next_run and
\* calculate_next_run: today's occurrence, or tomorrow's when today's is
\* not after the clock.
NextDaily(scheduled_time, clock) ==
    LET next_time == ReplaceDate(scheduled_time, clock)
    IN  IF next_time <= clock THEN next_time + DayLen ELSE next_time

\* ScheduledTask._calculate_initial_next_run
calculate_initial_next_run(mode, scheduled_time, clock) ==
    IF mode = "daily" THEN NextDaily(scheduled_time, clock) ELSE scheduled_time

\* ScheduledTask.calculate_next_run
calculate_next_run(mode, scheduled_time, clock) ==
    IF mode = "once" THEN None
    ELSE IF mode = "daily" THEN NextDaily(scheduled_time, clock)
    ELSE None

(***************************************************************************)
(* ScheduledTask.__init__                                                  *)
(***************************************************************************)
ScheduledTask(task_id, device_id, feed_count, dt, mode, clock) ==
    [ task_id        |-> task_id,
      device_id      |-> device_id,
      feed_count     |-> feed_count,
      scheduled_time |-> ToZone(dt),
      mode           |-> mode,
      last_run       |-> None,
      run_count      |-> 0,
      success_count  |-> 0,
      failure_count  |-> 0,
      last_error     |-> "None",
      is_running     |-> FALSE,
      next_run       |-> calculate_initial_next_run(mode, ToZone(dt), clock) ]

Registered == {id \in Ids : tasks[id] # 0}
ObjIds == 1..Len(objs)
ExecIds == 1..Len(execs)

\* add_task without its test of the job map.
add_task_replacing(id, dt, mode, dev, cnt) ==
    /\ lock = "free"
    /\ Len(objs) < MaxObjs
    /\ objs' = Append(objs, ScheduledTask(id, dev, cnt, dt, mode, now))
    /\ tasks' = [tasks EXCEPT ![id] = Len(objs) + 1]
    /\ UNCHANGED <<now, futures, execs, running, lock, loopPc, loopNow, loopTodo, nr, st>>

(***************************************************************************)
(* TaskScheduler.add_task, called with a freshly constructed ScheduledTask *)
(* as create_task and load_pending_tasks do.                               *)
(***************************************************************************)
add_task(id, dt, mode, dev, cnt) ==
    /\ lock = "free"
    /\ Len(objs) < MaxObjs
    /\ IF tasks[id] # 0
       THEN UNCHANGED <<objs, tasks>>
       ELSE /\ objs' = Append(objs, ScheduledTask(id, dev, cnt, dt, mode, now))
            /\ tasks' = [tasks EXCEPT ![id] = Len(objs) + 1]
    /\ UNCHANGED <<now, futures, execs, running, lock, loopPc, loopNow, loopTodo, nr, st>>

\* add_task as its callers reach it: create_task and load_pending_tasks
\* refuse a `once` job whose instant is not after the clock.
add_future_task(id, dt, mode, dev, cnt) ==
    /\ mode = "once" => ToZone(dt) > now
    /\ add_task(id, dt, mode, dev, cnt)

(***************************************************************************)
(* TaskScheduler.remove_task.  Future.cancel() succeeds only on an         *)
(* execution that no worker has started; one that is running runs on.      *)
(***************************************************************************)
remove_task(id) ==
    /\ lock = "free"
    /\ tasks[id] # 0
    /\ IF futures[id] # 0
       THEN /\ execs' = [execs EXCEPT ![futures[id]].pc =
                            IF @ = "queued" THEN "cancelled" ELSE @]
            /\ futures' = [futures EXCEPT ![id] = 0]
       ELSE UNCHANGED <<execs, futures>>
    /\ tasks' = [tasks EXCEPT ![id] = 0]
    /\ UNCHANGED <<now, objs, running, lock, loopPc, loopNow, loopTodo, nr, st>>

(***************************************************************************)
(* TaskScheduler.update_task(task_id, **kwargs).  kwargs gives for each    *)
(* keyword the empty set (not given) or the singleton of its value.        *)
(***************************************************************************)
Opt(S) == {{}} \cup {{x} : x \in S}
Given(kw, key) == kw[key] # {}
Arg(kw, key) == CHOOSE x \in kw[key] : TRUE

Kwargs ==
    [ device_id      : Opt(Devices),
      feed_count     : Opt(FeedCounts),
      scheduled_time : Opt(SchedTimes),
      mode           : Opt(Modes) ]

\* update_task without the recomputation of next_run on a new mode.
UpdatedTaskStale(task, kw, clock) ==
    LET t1 == IF Given(kw, "device_id")
              THEN [task EXCEPT !.device_id = Arg(kw, "device_id")] ELSE task
        t2 == IF Given(kw, "feed_count")
              THEN [t1 EXCEPT !.feed_count = Arg(kw, "feed_count")] ELSE t1
        t3 == IF Given(kw, "scheduled_time")
              THEN [t2 EXCEPT !.scheduled_time = ToZone(Arg(kw, "scheduled_time")),
                              !.next_run = calculate_initial_next_run(
                                               t2.mode, ToZone(Arg(kw, "scheduled_time")), clock)]
              ELSE t2
    IN  IF Given(kw, "mode") THEN [t3 EXCEPT !.mode = Arg(kw, "mode")] ELSE t3

UpdatedTask(task, kw, clock) ==
    LET t1 == IF Given(kw, "device_id")
              THEN [task EXCEPT !.device_id = Arg(kw, "device_id")] ELSE task
        t2 == IF Given(kw, "feed_count")
              THEN [t1 EXCEPT !.feed_count = Arg(kw, "feed_count")] ELSE t1
        t3 == IF Given(kw, "scheduled_time")
              THEN [t2 EXCEPT !.scheduled_time = ToZone(Arg(kw, "scheduled_time")),
                              !.next_run = calculate_initial_next_run(
                                               t2.mode, ToZone(Arg(kw, "scheduled_time")), clock)]
              ELSE t2
        t4 == IF Given(kw, "mode")
              THEN [t3 EXCEPT !.mode = Arg(kw, "mode"),
                              !.next_run = calculate_initial_next_run(
                                               Arg(kw, "mode"), t3.scheduled_time, clock)]
              ELSE t3
    IN  t4

update_task(id, kw) ==
    /\ lock = "free"
    /\ tasks[id] # 0
    /\ objs' = [objs EXCEPT ![tasks[id]] = UpdatedTask(@, kw, now)]
    /\ UNCHANGED <<now, tasks, futures, execs, running, lock, loopPc, loopNow, loopTodo, nr, st>>

(***************************************************************************)
(* TaskScheduler.start                                                     *)
(***************************************************************************)
start ==
    /\ ~running
    /\ running' = TRUE
    /\ UNCHANGED <<now, objs, tasks, futures, execs, lock, loopPc, loopNow, loopTodo, nr, st>>

(***************************************************************************)
(* TaskScheduler._scheduler_loop: one iteration is begin, one visit per    *)
(* snapshot entry under the lock, then the release of the lock and         *)
(* _cleanup_futures.                                                       *)
(***************************************************************************)
scheduler_loop_begin ==
    /\ running
    /\ loopPc = "wait"
    /\ lock = "free"
    /\ lock' = "loop"
    /\ loopPc' = "pass"
    /\ loopNow' = now
    /\ loopTodo' = Registered
    /\ UNCHANGED <<now, objs, tasks, futures, execs, running, nr, st>>

\* if task.next_run and task.next_run <= now and not task.is_running
Due(task, clock) ==
    /\ task.next_run # None
    /\ task.next_run <= clock
    /\ ~task.is_running

execute_task_uncounted(id) ==
    /\ Len(execs) < MaxExecs
    /\ objs' = [objs EXCEPT ![tasks[id]] = [@ EXCEPT !.is_running = TRUE, !.last_run = now]]
    /\ execs' = Append(execs, [obj |-> tasks[id], pc |-> "queued", res |-> "None"])
    /\ futures' = [futures EXCEPT ![id] = Len(execs) + 1]

\* TaskScheduler._execute_task
execute_task(id) ==
    /\ Len(execs) < MaxExecs
    /\ objs' = [objs EXCEPT ![tasks[id]] =
                   [@ EXCEPT !.is_running = TRUE,
                             !.last_run = now,
                             !.run_count = @ + 1]]
    /\ execs' = Append(execs, [obj |-> tasks[id], pc |-> "queued", res |-> "None"])
    /\ futures' = [futures EXCEPT ![id] = Len(execs) + 1]

scheduler_loop_visit(id) ==
    /\ loopPc = "pass"
    /\ id \in loopTodo
    /\ IF Due(objs[tasks[id]], loopNow)
       THEN execute_task(id)
       ELSE UNCHANGED <<objs, execs, futures>>
    /\ loopTodo' = loopTodo \ {id}
    /\ UNCHANGED <<now, tasks, running, lock, loopPc, loopNow, nr, st>>

Finished(e) == execs[e].pc \in {"done", "cancelled"}

\* TaskScheduler._cleanup_futures
cleanup_futures ==
    [id \in Ids |-> IF futures[id] # 0 /\ Finished(futures[id]) THEN 0 ELSE futures[id]]

scheduler_loop_end ==
    /\ loopPc = "pass"
    /\ loopTodo = {}
    /\ lock' = "free"
    /\ futures' = cleanup_futures
    /\ loopPc' = "wait"
    /\ UNCHANGED <<now, objs, tasks, execs, running, loopNow, loopTodo, nr, st>>

(***************************************************************************)
(* TaskScheduler._run_task on a worker thread.  The steps are the points   *)
(* at which another thread can observe the job: the call of execute_func   *)
(* with the counters that follow its return, then in the finally block the *)
(* write of is_running, the write of next_run, and the removal under the   *)
(* lock.                                                                   *)
(***************************************************************************)
Executing == {e \in ExecIds : execs[e].pc = "executing"}

run_task_call_locked(e) ==
    /\ e \in ExecIds
    /\ execs[e].pc = "queued"
    /\ Cardinality(Executing) < SCHEDULER_MAX_WORKERS
    /\ lock = "free"
    /\ lock' = "worker"
    /\ execs' = [execs EXCEPT ![e].pc = "executing"]
    /\ UNCHANGED <<now, objs, tasks, futures, running, loopPc, loopNow, loopTodo, nr, st>>

\* A worker of the pool takes the execution and calls task.execute_func.
run_task_call(e) ==
    /\ e \in ExecIds
    /\ execs[e].pc = "queued"
    /\ Cardinality(Executing) < SCHEDULER_MAX_WORKERS
    /\ execs' = [execs EXCEPT ![e].pc = "executing"]
    /\ UNCHANGED <<now, objs, tasks, futures, running, lock, loopPc, loopNow, loopTodo, nr, st>>

Outcomes == {"True", "False", "raise"}

\* _run_task with the failure written to every job.
run_task_return_shared(e, outcome) ==
    /\ e \in ExecIds
    /\ execs[e].pc = "executing"
    /\ execs' = [execs EXCEPT ![e].pc = "returned", ![e].res = outcome]
    /\ objs' = IF outcome = "True"
               THEN [objs EXCEPT ![execs[e].obj] =
                        [@ EXCEPT !.success_count = @ + 1, !.last_error = "None"]]
               ELSE [o \in ObjIds |->
                        [objs[o] EXCEPT !.failure_count = @ + 1, !.last_error = "exception"]]
    /\ UNCHANGED <<now, tasks, futures, running, lock, loopPc, loopNow, loopTodo, nr, st>>

run_task_return(e, outcome) ==
    /\ e \in ExecIds
    /\ execs[e].pc = "executing"
    /\ execs' = [execs EXCEPT ![e].pc = "returned", ![e].res = outcome]
    /\ objs' = [objs EXCEPT ![execs[e].obj] =
                   IF outcome = "True"
                   THEN [@ EXCEPT !.success_count = @ + 1, !.last_error = "None"]
                   ELSE [@ EXCEPT !.failure_count = @ + 1,
                                  !.last_error = IF outcome = "False"
                                                 THEN "returned failure" ELSE "exception"]]
    /\ UNCHANGED <<now, tasks, futures, running, lock, loopPc, loopNow, loopTodo, nr, st>>

run_task_clear(e) ==
    /\ e \in ExecIds
    /\ execs[e].pc = "returned"
    /\ execs' = [execs EXCEPT ![e].pc = "cleared"]
    /\ objs' = [objs EXCEPT ![execs[e].obj].is_running = FALSE]
    /\ UNCHANGED <<now, tasks, futures, running, lock, loopPc, loopNow, loopTodo, nr, st>>

run_task_next_run(e) ==
    /\ e \in ExecIds
    /\ execs[e].pc = "cleared"
    /\ execs' = [execs EXCEPT ![e].pc = "rescheduled"]
    /\ LET task == objs[execs[e].obj]
       IN  objs' = [objs EXCEPT ![execs[e].obj] =
                       [task EXCEPT !.next_run = calculate_next_run(
                                                     task.mode, task.scheduled_time, now)]]
    /\ UNCHANGED <<now, tasks, futures, running, lock, loopPc, loopNow, loopTodo, nr, st>>

run_task_finish(e) ==
    /\ e \in ExecIds
    /\ execs[e].pc = "rescheduled"
    /\ LET task == objs[execs[e].obj]
       IN  IF task.next_run # None
           THEN UNCHANGED tasks
           ELSE /\ lock = "free"
                /\ tasks' = [tasks EXCEPT ![task.task_id] = 0]
    /\ execs' = [execs EXCEPT ![e].pc = "done"]
    /\ UNCHANGED <<now, objs, futures, running, lock, loopPc, loopNow, loopTodo, nr, st>>

\* The wall clock.
Advance ==
    /\ now < MaxTime
    /\ now' = now + 1
    /\ UNCHANGED <<objs, tasks, futures, execs, running, lock, loopPc, loopNow, loopTodo, nr, st>>

\* No record persisted, no call made, start() and stop() not modelled.
NoRow == [status |-> "none"]
NoCall == [op |-> "none"]
LifeIdle == [phase |-> "off"]
NoArgs == [task_id |-> "None"]

LoadIdle == [pc |-> "off"]
FsIdle == [phase |-> "off"]
PlIdle == [phase |-> "off"]

\* No execute_func called yet, load_pending_tasks not modelled.
AuxInit ==
    /\ args = [e \in 1..MaxExecs |-> NoArgs]
    /\ load = LoadIdle
    /\ fs = FsIdle
    /\ pl = PlIdle

ExtInit ==
    /\ db = [id \in Ids |-> NoRow]
    /\ ret = NoCall
    /\ life = LifeIdle
    /\ updates = 0
    /\ AuxInit

SchedInit ==
    /\ now = 0
    /\ objs = <<>>
    /\ tasks = [id \in Ids |-> 0]
    /\ futures = [id \in Ids |-> 0]
    /\ execs = <<>>
    /\ running = FALSE
    /\ lock = "free"
    /\ loopPc = "wait"
    /\ loopNow = 0
    /\ loopTodo = {}

(***************************************************************************)
(* The next-run computation on drawn inputs: a job is constructed from a   *)
(* drawn datetime and mode at a drawn clock (ScheduledTask.__init__), and  *)
(* calculate_next_run is then applied at a later clock, as _run_task does  *)
(* after a firing.                                                         *)
(***************************************************************************)
NrIdle == [phase |-> "off"]

NrInit ==
    nr \in [ phase : {"drawn"}, dt : DateTimes(0..NrMaxWall), mode : Modes,
             clock : 0..NrMaxClock ]

nr_construct ==
    /\ nr.phase = "drawn"
    /\ nr' = [ phase |-> "constructed", dt |-> nr.dt, mode |-> nr.mode, clock |-> nr.clock,
               task |-> ScheduledTask("t1", "devA", 2, nr.dt, nr.mode, nr.clock) ]
    /\ UNCHANGED <<schedVars, st, extVars>>

nr_fired(clock) ==
    /\ nr.phase = "constructed"
    /\ clock >= nr.clock
    /\ nr' = [ phase |-> "fired", dt |-> nr.dt, mode |-> nr.mode, clock |-> clock,
               task |-> [nr.task EXCEPT !.next_run = calculate_next_run(
                                            nr.task.mode, nr.task.scheduled_time, clock)] ]
    /\ UNCHANGED <<schedVars, st, extVars>>

NextRunNext ==
    \/ nr_construct
    \/ \E clock \in 0..NrMaxClock : nr_fired(clock)

(***************************************************************************)
(* One /chat/stream request: event_generator (the consumer) and the        *)
(* workflow task it creates (the producer), which run on one event loop    *)
(* and are interleaved at their awaits.  A step of the workflow is the     *)
(* code between two awaits, with every put_nowait it makes.                *)
(*                                                                         *)
(* An event is its type, the node that pushed it ("api" for the frames     *)
(* event_generator builds itself) and, for pushed events, the position of  *)
(* the push in the run.                                                    *)
(***************************************************************************)
StIdle == [phase |-> "off"]

Event(type, node, n) == [type |-> type, node |-> node, n |-> n]

\* event_queue.put_nowait for each of `types` in turn, behind the nodes'
\* `if event_queue:`.
Pushed(s, node, types) ==
    IF s.attached
    THEN LET evs == [i \in 1..Len(types) |-> Event(types[i], node, Len(s.pushed) + i)]
         IN  [s EXCEPT !.queue = @ \o evs, !.pushed = @ \o evs]
    ELSE s

StreamInit ==
    st \in [ phase : {"on"},
             attached : BOOLEAN,        \* the nodes find the queue in their state
             gen : {"init"},            \* position of event_generator
             wf : {"notstarted"},       \* position of workflow.ainvoke
             queue : {<<>>},            \* event_queue
             out : {<<>>},              \* the frames yielded so far
             pushed : {<<>>},           \* every event pushed so far
             workflow_done : {FALSE},
             error : {FALSE},           \* state["error"] is not None
             device_type : {"None"},
             failed : {{}},             \* the nodes whose except block ran
             lines : {0},               \* SSE lines read from the expert
             tool_events : {0} ]        \* tool callbacks run

WfAt(pc) == st.phase = "on" /\ st.wf = pc
GenAt(pc) == st.phase = "on" /\ st.gen = pc
StStep(s) == st' = s /\ UNCHANGED <<schedVars, nr, extVars>>

\* expert_gate_node up to the await of llm_manager.invoke_with_tools
gate_enter ==
    /\ WfAt("start")
    /\ StStep([Pushed(st, "gate", <<"node", "status">>) EXCEPT !.wf = "gate_llm"])

\* the LLM call raised: the except block of expert_gate_node
gate_failed ==
    /\ WfAt("gate_llm")
    /\ StStep([Pushed(st, "gate", <<"error">>) EXCEPT
                  !.wf = "router", !.error = TRUE, !.failed = @ \cup {"gate"}])

\* the response has no tool call
gate_no_expert ==
    /\ WfAt("gate_llm")
    /\ StStep([Pushed(st, "gate", <<"status">>) EXCEPT !.wf = "router"])

\* the response calls consult_expert: consult_stream up to the HTTP request
gate_consult ==
    /\ WfAt("gate_llm")
    /\ StStep([Pushed(st, "expert", <<"expert_start">>) EXCEPT !.wf = "expert"])

\* consult_stream: one `data: ` line of the expert's answer
expert_line ==
    /\ WfAt("expert")
    /\ st.lines < MaxLines
    /\ StStep([Pushed(st, "expert", <<"expert_stream">>) EXCEPT !.lines = @ + 1])

\* consult_stream: a status other than 200, a timeout or another exception
expert_failed ==
    /\ WfAt("expert")
    /\ StStep([Pushed(st, "expert", <<"expert_error">>) EXCEPT !.wf = "router"])

\* consult_stream: the end of the answer
expert_done ==
    /\ WfAt("expert")
    /\ StStep([Pushed(st, "expert", <<"expert_done">>) EXCEPT !.wf = "router"])

\* device_router_node up to the await of llm_manager.invoke_simple
router_enter ==
    /\ WfAt("router")
    /\ StStep([Pushed(st, "router", <<"node", "status">>) EXCEPT !.wf = "router_llm"])

\* the routing decision
router_route(target) ==
    /\ WfAt("router_llm")
    /\ StStep([Pushed(st, "router", <<"routing">>) EXCEPT
                  !.wf = target, !.device_type = target])

\* the except block of device_router_node
router_failed ==
    /\ WfAt("router_llm")
    /\ StStep([Pushed(st, "router", <<"error">>) EXCEPT
                  !.wf = "feeder", !.device_type = "feeder",
                  !.error = TRUE, !.failed = @ \cup {"router"}])

\* feeder_agent_node up to the await of the agent; get_devices either
\* returns devices or does not
FeederEntered(s, found) ==
    Pushed(s, "feeder",
           IF found THEN <<"node", "status", "devices_found", "agent_start">>
                    ELSE <<"node", "status", "agent_start">>)

feeder_enter(found) ==
    /\ WfAt("feeder")
    /\ StStep([FeederEntered(st, found) EXCEPT !.wf = "feeder_agent"])

\* ToolLoggingCallback.on_tool_start and on_tool_end
feeder_tool(type) ==
    /\ WfAt("feeder_agent")
    /\ st.tool_events < MaxToolEvents
    /\ StStep([Pushed(st, "feeder", <<type>>) EXCEPT !.tool_events = @ + 1])

\* the agent returned its answer
feeder_done ==
    /\ WfAt("feeder_agent")
    /\ StStep([Pushed(st, "feeder", <<"message">>) EXCEPT !.wf = "returned"])

\* the except block of feeder_agent_node
feeder_failed ==
    /\ WfAt("feeder_agent")
    /\ StStep([Pushed(st, "feeder", <<"error">>) EXCEPT
                  !.wf = "returned", !.error = TRUE, !.failed = @ \cup {"feeder"}])

\* camera_agent_node and sensor_agent_node: DeviceAgentManager.initialize
\* creates neither agent, so invoke_camera_agent and invoke_sensor_agent
\* raise and the except block runs
device_failed(node) ==
    /\ WfAt(node)
    /\ node \in {"camera", "sensor"}
    /\ StStep([st EXCEPT !.wf = "returned", !.error = TRUE, !.failed = @ \cup {node}])

\* workflow.ainvoke itself raises (the graph runtime, not a node)
ainvoke_raises ==
    /\ st.phase = "on"
    /\ st.wf \in {"start", "router", "feeder", "camera", "sensor"}
    /\ StStep([st EXCEPT !.wf = "raised"])

\* workflow_task.done()
TaskNeverDone(s) == FALSE
TaskDone(s) == s.wf \in {"returned", "raised"}

\* while not workflow_done or not event_queue.empty()
LoopAlways(s) == TRUE
LoopContinues(s) == ~s.workflow_done \/ s.queue # <<>>

\* event_queue.get()
QueueGetLast(q) == [event |-> q[Len(q)], rest |-> SubSeq(q, 1, Len(q) - 1)]
QueueGet(q) == [event |-> Head(q), rest |-> Tail(q)]

\* the frame built from the outcome of the workflow task
TerminalFrame(s) ==
    IF s.wf = "returned" THEN Event("done", "api", 0) ELSE Event("error", "api", 0)

\* event_generator: the start frame and asyncio.create_task
gen_start ==
    /\ GenAt("init")
    /\ StStep([st EXCEPT !.out = <<Event("start", "api", 0)>>,
                         !.wf = "start", !.gen = "loop"])

gen_loop ==
    /\ GenAt("loop")
    /\ StStep([st EXCEPT !.gen = IF LoopContinues(st) THEN "get" ELSE "end"])

\* asyncio.wait_for(event_queue.get(), timeout=0.1) returns an event
gen_receive ==
    /\ GenAt("get")
    /\ st.queue # <<>>
    /\ StStep([st EXCEPT !.out = Append(@, QueueGet(st.queue).event),
                         !.queue = QueueGet(st.queue).rest,
                         !.gen = "loop"])

\* the timeout of wait_for expires on an empty queue; wait_for then cancels
\* the get and raises TimeoutError once the cancellation is through, and the
\* workflow task may run in between
gen_timer ==
    /\ GenAt("get")
    /\ st.queue = <<>>
    /\ StStep([st EXCEPT !.gen = "timeout"])

\* except asyncio.TimeoutError
gen_timeout ==
    /\ GenAt("timeout")
    /\ StStep(IF TaskDone(st)
              THEN [st EXCEPT !.workflow_done = TRUE,
                              !.out = Append(@, TerminalFrame(st)),
                              !.gen = "loop"]
              ELSE [st EXCEPT !.gen = "loop"])

WorkflowNext ==
    \/ gate_enter
    \/ gate_failed
    \/ gate_no_expert
    \/ gate_consult
    \/ expert_line
    \/ expert_failed
    \/ expert_done
    \/ router_enter
    \/ \E target \in {"feeder", "camera", "sensor"} : router_route(target)
    \/ router_failed
    \/ \E found \in BOOLEAN : feeder_enter(found)
    \/ \E type \in {"tool_call", "tool_result"} : feeder_tool(type)
    \/ feeder_done
    \/ feeder_failed
    \/ \E node \in {"camera", "sensor"} : device_failed(node)
    \/ ainvoke_raises

ConsumerNext ==
    \/ gen_start
    \/ gen_loop
    \/ gen_receive
    \/ gen_timer
    \/ gen_timeout

StreamNext == WorkflowNext \/ ConsumerNext


Init ==
    /\ SchedInit
    /\ nr = NrIdle
    /\ st = StIdle
    /\ ExtInit

Next ==
    \/ /\ \E id \in OneId, dt \in SchedTimes, mode \in Modes,
             dev \in Devices, cnt \in FeedCounts : add_future_task(id, dt, mode, dev, cnt)
       /\ UNCHANGED extVars
    \/ /\ \E id \in OneId : remove_task(id)
       /\ UNCHANGED extVars
    \/ /\ \E id \in OneId, kw \in Kwargs : update_task(id, kw)
       /\ UNCHANGED extVars
    \/ /\ start
       /\ UNCHANGED extVars
    \/ /\ scheduler_loop_begin
       /\ UNCHANGED extVars
    \/ /\ \E id \in Ids : scheduler_loop_visit(id)
       /\ UNCHANGED extVars
    \/ /\ scheduler_loop_end
       /\ UNCHANGED extVars
    \/ /\ \E e \in 1..MaxExecs : run_task_call(e)
       /\ UNCHANGED extVars
    \/ /\ \E e \in 1..MaxExecs, outcome \in Outcomes : run_task_return(e, outcome)
       /\ UNCHANGED extVars
    \/ /\ \E e \in 1..MaxExecs : run_task_clear(e)
       /\ UNCHANGED extVars
    \/ /\ \E e \in 1..MaxExecs : run_task_next_run(e)
       /\ UNCHANGED extVars
    \/ /\ \E e \in 1..MaxExecs : run_task_finish(e)
       /\ UNCHANGED extVars
    \/ /\ Advance
       /\ UNCHANGED extVars

Spec == Init /\ [][Next]_vars


\* The tick loop and the workers alone: jobs are added, never removed or updated.
LoopNext ==
    \/ /\ \E id \in OneId, dt \in SchedTimes, mode \in Modes,
             dev \in Devices, cnt \in FeedCounts : add_future_task(id, dt, mode, dev, cnt)
       /\ UNCHANGED extVars
    \/ /\ start
       /\ UNCHANGED extVars
    \/ /\ scheduler_loop_begin
       /\ UNCHANGED extVars
    \/ /\ \E id \in Ids : scheduler_loop_visit(id)
       /\ UNCHANGED extVars
    \/ /\ scheduler_loop_end
       /\ UNCHANGED extVars
    \/ /\ \E e \in 1..MaxExecs : run_task_call(e)
       /\ UNCHANGED extVars
    \/ /\ \E e \in 1..MaxExecs, outcome \in Outcomes : run_task_return(e, outcome)
       /\ UNCHANGED extVars
    \/ /\ \E e \in 1..MaxExecs : run_task_clear(e)
       /\ UNCHANGED extVars
    \/ /\ \E e \in 1..MaxExecs : run_task_next_run(e)
       /\ UNCHANGED extVars
    \/ /\ \E e \in 1..MaxExecs : run_task_finish(e)
       /\ UNCHANGED extVars
    \/ /\ Advance
       /\ UNCHANGED extVars

LoopSpec == Init /\ [][LoopNext]_vars

\* One request, the scheduler not started.
RequestInit ==
    /\ SchedInit
    /\ nr = NrIdle
    /\ StreamInit
    /\ ExtInit

StreamSpec == RequestInit /\ [][StreamNext]_vars

\* The event loop runs the consumer whenever it can take a step.
StreamFairSpec == StreamSpec /\ WF_vars(ConsumerNext)

\* One drawn job, the scheduler not started.
DrawnInit ==
    /\ SchedInit
    /\ NrInit
    /\ st = StIdle
    /\ ExtInit

NextRunSpec == DrawnInit /\ [][NextRunNext]_vars

(***************************************************************************)
(* The schedule service of src/services/schedule_service.py and the tool   *)
(* of src/tools/feeder_tools.py that calls it.  A persisted record is the  *)
(* row of the tasks table: its status, its mode and the number of          *)
(* execution records appended to its response.  ret is what the call that  *)
(* returned in the last step answered, with the request it answered.       *)
(***************************************************************************)
\* A call of `op` returns in this step.
Returns(op) == ret'.op = op

\* A step of the scheduler's own threads or of the clock: no call returns.
Quiet == ret' = NoCall /\ UNCHANGED <<db, life, updates, auxVars>>

MaxFeedCount == 10
AskedCounts == {0, 1, MaxFeedCount, MaxFeedCount + 1}

\* _generate_task_id: a uuid4, an id that no row and no job carries.
FreshIds == {id \in OneId : db[id] = NoRow /\ tasks[id] = 0}
NewTaskId == CHOOSE id \in FreshIds : TRUE

Answer(op, success, task_id, cnt, t, mode) ==
    [ op |-> op, success |-> success, task_id |-> task_id,
      feed_count |-> cnt, scheduled_time |-> t, mode |-> mode ]

NotAfterStrict(mode, t, clock) == mode = "once" /\ t < clock

\* if mode == TaskMode.ONCE and scheduled_time <= now
NotInFuture(mode, t, clock) == mode = "once" /\ t <= clock

\* The row create_task inserts: Task(..., mode=mode, request=...,
\* status=TaskStatus.PENDING), the request holding the time in the zone.
Task(dev, cnt, mode, t) ==
    [ status |-> "pending", mode |-> mode,
      device_id |-> dev, feed_count |-> cnt, scheduled_time |-> t,
      response |-> "None", executions |-> 0 ]

\* ScheduleService.create_task.  dbok: the insert and its commit succeed;
\* otherwise the session raises and the outer except answers with failure.
create_task(op, dev, cnt, dt, mode, dbok) ==
    LET t == ToZone(dt)
    IN  IF NotInFuture(mode, t, now) \/ ~dbok
        THEN /\ ret' = Answer(op, FALSE, "None", cnt, t, mode)
             /\ UNCHANGED <<schedVars, nr, st, db, life, updates, auxVars>>
        ELSE /\ FreshIds # {}
             /\ db' = [db EXCEPT ![NewTaskId] = Task(dev, cnt, mode, t)]
             /\ add_task(NewTaskId, [wall |-> t, off |-> TzOffset], mode, dev, cnt)
             /\ ret' = Answer(op, TRUE, NewTaskId, cnt, t, mode)
             /\ UNCHANGED <<life, updates, auxVars>>

FeedCountAllowedFromZero(cnt) == ~(cnt < 0 \/ cnt > MaxFeedCount)

\* if feed_count <= 0 or feed_count > 10: the request is refused
FeedCountAllowed(cnt) == ~(cnt <= 0 \/ cnt > MaxFeedCount)

\* The tool create_schedule_task with a device id, a parsable time and a
\* valid mode: it checks feed_count, brings the time to the configured zone
\* and calls create_task.
create_schedule_task(dev, cnt, dt, mode, dbok) ==
    IF ~FeedCountAllowed(cnt)
    THEN /\ ret' = Answer("create_schedule_task", FALSE, "None", cnt, ToZone(dt), mode)
         /\ UNCHANGED <<schedVars, nr, st, db, life, updates, auxVars>>
    ELSE create_task("create_schedule_task", dev, cnt,
                     [wall |-> ToZone(dt), off |-> TzOffset], mode, dbok)

\* ScheduleService.delete_task: the row is marked cancelled and committed,
\* then the job is taken out of the scheduler, whose answer is not read.
delete_task(id) ==
    /\ IF db[id] = NoRow
       THEN /\ ret' = Answer("delete_task", FALSE, id, 0, None, "None")
            /\ UNCHANGED <<schedVars, nr, st, db>>
       ELSE /\ db' = [db EXCEPT ![id].status = "cancelled"]
            /\ IF tasks[id] # 0
               THEN remove_task(id)
               ELSE lock = "free" /\ UNCHANGED <<schedVars, nr, st>>
            /\ ret' = Answer("delete_task", TRUE, id, 0, None, "None")
    /\ UNCHANGED <<life, updates, auxVars>>

\* _update_task_execution_record for a daily job, _update_task_status for a
\* once job; both do nothing when the row is missing or the session raises.
\* response is what the column holds: nothing, the list of the last
\* execution records, the result of a once firing, or the reason why
\* load_pending_tasks failed the record; executions is the length of the list.
Recorded(row, mode, result, dbok) ==
    IF row = NoRow \/ ~dbok THEN row
    ELSE IF mode = "daily"
         THEN [row EXCEPT !.response = "executions",
                          !.executions = IF row.response \in {"None", "executions"}
                                         THEN @ + 1 ELSE 1]
    ELSE [row EXCEPT !.status = IF result = "True" THEN "completed" ELSE "failed",
                     !.response = "result",
                     !.executions = 0]

\* _run_task calls task.execute_func(task.device_id, task.feed_count,
\* task.task_id, task.mode): the arguments are read when the call starts.
execute_func_call(e) ==
    /\ run_task_call(e)
    /\ LET task == objs[execs[e].obj]
       IN  args' = [args EXCEPT ![e] = [task_id |-> task.task_id, mode |-> task.mode]]
    /\ ret' = NoCall
    /\ UNCHANGED <<db, life, updates, load, fs, pl>>

\* ScheduleService._execute_feed_task, the execute_func of every job the
\* service registers, as _run_task calls it: the feed succeeds, fails or
\* raises, the row is updated, and True or False is returned to _run_task.
execute_feed_task(e, result, dbok) ==
    /\ run_task_return(e, IF result = "True" THEN "True" ELSE "False")
    /\ db' = [db EXCEPT ![args[e].task_id] = Recorded(@, args[e].mode, result, dbok)]
    /\ ret' = NoCall
    /\ UNCHANGED <<life, updates, auxVars>>

\* The keywords update_task is called with next to the tick loop: a new
\* time, a new mode, both or neither.
ServiceTimes == {[wall |-> 1, off |-> None]}
ServiceKwargs ==
    [ device_id      : {{}},
      feed_count     : {{}},
      scheduled_time : Opt(ServiceTimes),
      mode           : Opt(Modes) ]

\* ScheduleService.update_task: refused when the row is missing or its
\* status is not pending; otherwise the row takes the new time and mode, is
\* committed, and the scheduler's job is updated, its answer not read.
ScheduleService_update_task(id, kw) ==
    /\ updates < MaxUpdates
    /\ updates' = updates + 1
    /\ IF db[id] = NoRow \/ db[id].status # "pending"
       THEN /\ ret' = Answer("update_task", FALSE, id, 0, None, "None")
            /\ UNCHANGED <<schedVars, nr, st, db>>
       ELSE /\ db' = [db EXCEPT ![id] =
                        [@ EXCEPT !.mode = IF Given(kw, "mode")
                                           THEN Arg(kw, "mode") ELSE @,
                                  !.device_id = IF Given(kw, "device_id")
                                                THEN Arg(kw, "device_id") ELSE @,
                                  !.feed_count = IF Given(kw, "feed_count")
                                                 THEN Arg(kw, "feed_count") ELSE @,
                                  !.scheduled_time =
                                      IF Given(kw, "scheduled_time")
                                      THEN ToZone(Arg(kw, "scheduled_time")) ELSE @]]
            /\ IF tasks[id] # 0
               THEN update_task(id, kw)
               ELSE lock = "free" /\ UNCHANGED <<schedVars, nr, st>>
            /\ ret' = Answer("update_task", TRUE, id, 0, None, "None")
    /\ UNCHANGED <<life, auxVars>>

(***************************************************************************)
(* ScheduleService.load_pending_tasks, between the query and the return:   *)
(* one step per row of the result.  The session is taken to work.          *)
(***************************************************************************)
LoadAt(pc) == load.pc = pc
LoadStep(l) == load' = l /\ UNCHANGED <<life, updates, args, fs, pl>>

\* session.query(Task).filter(Task.status == TaskStatus.PENDING, ...).all()
PendingRows == {id \in Ids : db[id].status = "pending"}

load_begin ==
    /\ LoadAt("ready")
    /\ LoadStep([pc |-> "loop", todo |-> PendingRows, loaded_count |-> 0])
    /\ ret' = NoCall
    /\ UNCHANGED <<schedVars, nr, st, db>>

ExpiredNever(row, clock) == FALSE

\* if task.mode == TaskMode.ONCE and scheduled_time <= now
Expired(row, clock) == NotInFuture(row.mode, row.scheduled_time, clock)

\* One pass of `for task in tasks`: the row is failed with its reason and
\* skipped, or its job is constructed and handed to add_task.
load_visit(id) ==
    /\ LoadAt("loop")
    /\ id \in load.todo
    /\ IF Expired(db[id], now)
       THEN /\ db' = [db EXCEPT ![id] = [@ EXCEPT !.status = "failed",
                                                  !.response = "expired"]]
            /\ LoadStep([load EXCEPT !.todo = @ \ {id}])
            /\ UNCHANGED <<schedVars, nr, st>>
       ELSE /\ add_task(id, [wall |-> db[id].scheduled_time, off |-> TzOffset],
                        db[id].mode, db[id].device_id, db[id].feed_count)
            /\ LoadStep([load EXCEPT !.todo = @ \ {id},
                                     !.loaded_count = @ + 1])
            /\ UNCHANGED db
    /\ ret' = NoCall

load_return ==
    /\ LoadAt("loop")
    /\ load.todo = {}
    /\ LoadStep([load EXCEPT !.pc = "done"])
    /\ ret' = [op |-> "load_pending_tasks", loaded_count |-> load.loaded_count]
    /\ UNCHANGED <<schedVars, nr, st, db>>

\* The requests alone, with every feed_count asked for; the scheduler is
\* not started.
ToolNext ==
    \/ \E dev \in Devices, cnt \in AskedCounts, dt \in SchedTimes, mode \in Modes,
          dbok \in BOOLEAN : create_schedule_task(dev, cnt, dt, mode, dbok)
    \/ \E id \in OneId : delete_task(id)
    \/ /\ Advance
       /\ Quiet

ToolSpec == Init /\ [][ToolNext]_vars

\* The requests with the tick loop and the workers.
ServiceNext ==
    \/ \E dev \in Devices, cnt \in FeedCounts, dt \in SchedTimes, mode \in Modes,
          dbok \in BOOLEAN : create_schedule_task(dev, cnt, dt, mode, dbok)
    \/ \E id \in OneId : delete_task(id)
    \/ \E id \in OneId, kw \in ServiceKwargs : ScheduleService_update_task(id, kw)
    \/ /\ start
       /\ Quiet
    \/ /\ scheduler_loop_begin
       /\ Quiet
    \/ /\ \E id \in Ids : scheduler_loop_visit(id)
       /\ Quiet
    \/ /\ scheduler_loop_end
       /\ Quiet
    \/ \E e \in 1..MaxExecs : execute_func_call(e)
    \/ \E e \in 1..MaxExecs, result \in Outcomes, dbok \in BOOLEAN :
           execute_feed_task(e, result, dbok)
    \/ /\ \E e \in 1..MaxExecs : run_task_clear(e)
       /\ Quiet
    \/ /\ \E e \in 1..MaxExecs : run_task_next_run(e)
       /\ Quiet
    \/ /\ \E e \in 1..MaxExecs : run_task_finish(e)
       /\ Quiet
    \/ /\ Advance
       /\ Quiet

ServiceSpec == Init /\ [][ServiceNext]_vars

\* The process starts on the records an earlier run left: per id none, or
\* a record of either mode, pending or cancelled, with any time of the
\* model; load_pending_tasks is called once, the scheduler is started
\* before, during or after it, and the clock may pass any record's time
\* before its row is visited.
LoadTimes == {0, 1}
PersistedRows ==
    {NoRow} \cup
    { [Task(dev, cnt, mode, t) EXCEPT !.status = status] :
          dev \in Devices, cnt \in FeedCounts, mode \in Modes, t \in LoadTimes,
          status \in {"pending", "cancelled"} }

StartupInit ==
    /\ SchedInit
    /\ nr = NrIdle
    /\ st = StIdle
    /\ db \in [Ids -> PersistedRows]
    /\ ret = NoCall
    /\ life = LifeIdle
    /\ updates = 0
    /\ args = [e \in 1..MaxExecs |-> NoArgs]
    /\ load = [pc |-> "ready"]
    /\ fs = FsIdle
    /\ pl = PlIdle

LoadNext ==
    \/ load_begin
    \/ \E id \in Ids : load_visit(id)
    \/ load_return
    \/ /\ start
       /\ Quiet
    \/ /\ scheduler_loop_begin
       /\ Quiet
    \/ /\ \E id \in Ids : scheduler_loop_visit(id)
       /\ Quiet
    \/ /\ scheduler_loop_end
       /\ Quiet
    \/ \E e \in 1..MaxExecs : execute_func_call(e)
    \/ \E e \in 1..MaxExecs, result \in {"True", "False"}, dbok \in BOOLEAN :
           execute_feed_task(e, result, dbok)
    \/ /\ \E e \in 1..MaxExecs : run_task_clear(e)
       /\ Quiet
    \/ /\ \E e \in 1..MaxExecs : run_task_next_run(e)
       /\ Quiet
    \/ /\ \E e \in 1..MaxExecs : run_task_finish(e)
       /\ Quiet
    \/ /\ Advance
       /\ Quiet

LoadSpec == StartupInit /\ [][LoadNext]_vars

(***************************************************************************)
(* The FeederService of src/services/feeder_service.py: the one instance   *)
(* get_feeder_service() hands to the scheduler's workers and to the tools, *)
(* and the calls of a method wrapped by auto_retry_on_auth_error on it.    *)
(* The vendor API answers each POST with a transport error ("err") or     *)
(* with a status: "1" success, "7" authkey expired, "0" any other.         *)
(* A call's record holds what the call itself did: the credential it found *)
(* and the answer it got on its first attempt, the answer of its latest    *)
(* attempt, the POSTs of the operation, the calls of login().              *)
(***************************************************************************)
Responses == {"err", "1", "7", "0"}

NoAttempt ==
    [ pc |-> "idle", stage |-> "first", cached |-> FALSE, first |-> "None",
      own |-> "None", attempts |-> 0, logins |-> 0, relogins |-> 0,
      relogin_ok |-> FALSE ]

\* FeederService.__init__: no authkey, no status recorded.
FeederInit ==
    /\ fs = [ phase |-> "on", authkey |-> "None", last_api_status |-> "None",
              call |-> [c \in Callers |-> NoAttempt] ]

CallAt(c, pc) == fs.phase = "on" /\ fs.call[c].pc = pc
FsStep(f) == fs' = f /\ UNCHANGED <<schedVars, nr, st, db, life, updates, args, load, pl>>

\* What the wrapper returns to the caller of the method.
Returned(c, call) ==
    [ op |-> "feed", caller |-> c, success |-> call.own = "1",
      stage |-> call.stage, cached |-> call.cached, first |-> call.first,
      own |-> call.own, attempts |-> call.attempts, logins |-> call.logins,
      relogins |-> call.relogins, relogin_ok |-> call.relogin_ok ]

\* The attempt of `call` is over: the first attempt goes back to the
\* wrapper, the retry's result is what the wrapper returns.
AttemptOver(f, c, call) ==
    IF call.stage = "first"
    THEN /\ FsStep([f EXCEPT !.call[c] = [call EXCEPT !.pc = "wrapper"]])
         /\ ret' = NoCall
    ELSE /\ FsStep([f EXCEPT !.call[c] = NoAttempt])
         /\ ret' = Returned(c, call)

\* wrapper: is_retry = kwargs.pop('_is_retry', False); func(self, ...)
wrapper_call(c) ==
    /\ CallAt(c, "idle")
    /\ FsStep([fs EXCEPT !.call[c] = [NoAttempt EXCEPT !.pc = "check"]])
    /\ ret' = NoCall

\* The method body: if not self.authkey
func_check(c) ==
    /\ CallAt(c, "check")
    /\ LET call == fs.call[c]
           seen == IF call.stage = "first"
                   THEN [call EXCEPT !.cached = fs.authkey # "None"] ELSE call
       IN  FsStep([fs EXCEPT !.call[c] =
                       [seen EXCEPT !.pc = IF fs.authkey = "None"
                                           THEN "login" ELSE "post"]])
    /\ ret' = NoCall

\* The method body: if not self.login(): return the failure value
func_login(c, ok) ==
    /\ CallAt(c, "login")
    /\ LET call == [fs.call[c] EXCEPT !.logins = @ + 1]
       IN  IF ok
           THEN /\ FsStep([fs EXCEPT !.authkey = "key",
                                     !.call[c] = [call EXCEPT !.pc = "post"]])
                /\ ret' = NoCall
           ELSE AttemptOver(fs, c, [call EXCEPT !.own = "nologin",
                                                !.first = IF call.stage = "first"
                                                          THEN "nologin" ELSE @])

\* The method body: result = self._post(payload) and what follows it.
func_post(c, resp) ==
    /\ CallAt(c, "post")
    /\ LET call == [fs.call[c] EXCEPT !.attempts = @ + 1,
                                      !.own = resp,
                                      !.first = IF @ = "None" /\ fs.call[c].stage = "first"
                                                THEN resp ELSE @]
           f == IF resp = "err" THEN fs ELSE [fs EXCEPT !.last_api_status = resp]
       IN  AttemptOver(f, c, call)

\* if hasattr(self, '_last_api_status') and self._last_api_status == 7
NeedRetry == fs.last_api_status = "7"

\* wrapper, after the first attempt: need_retry and self.authkey
wrapper_check(c) ==
    /\ CallAt(c, "wrapper")
    /\ IF NeedRetry /\ fs.authkey # "None"
       THEN /\ FsStep([fs EXCEPT !.authkey = "None", !.call[c].pc = "relogin"])
            /\ ret' = NoCall
       ELSE /\ FsStep([fs EXCEPT !.call[c] = NoAttempt])
            /\ ret' = Returned(c, fs.call[c])

\* wrapper: if self.login(): kwargs['_is_retry'] = True; func(self, ...)
wrapper_login(c, ok) ==
    /\ CallAt(c, "relogin")
    /\ LET call == [fs.call[c] EXCEPT !.logins = @ + 1, !.relogins = @ + 1,
                                      !.relogin_ok = ok]
       IN  IF ok
           THEN /\ FsStep([fs EXCEPT !.authkey = "key",
                                     !.call[c] = [call EXCEPT !.stage = "retry",
                                                              !.pc = "check"]])
                /\ ret' = NoCall
           ELSE /\ FsStep([fs EXCEPT !.call[c] = NoAttempt])
                /\ ret' = Returned(c, call)

FeederStep(c) ==
    \/ func_check(c)
    \/ \E ok \in BOOLEAN : func_login(c, ok)
    \/ \E resp \in Responses : func_post(c, resp)
    \/ wrapper_check(c)
    \/ \E ok \in BOOLEAN : wrapper_login(c, ok)

NoCallInProgress == \A c \in Callers : fs.call[c].pc = "idle"

\* Calls from the workers and the tools, overlapping in any way.
FeederNext ==
    \/ \E c \in Callers : wrapper_call(c)
    \/ \E c \in Callers : FeederStep(c)

\* One call at a time.
FeederSeqNext ==
    \/ \E c \in Callers : NoCallInProgress /\ wrapper_call(c)
    \/ \E c \in Callers : FeederStep(c)

ServiceConstructedInit ==
    /\ SchedInit
    /\ nr = NrIdle
    /\ st = StIdle
    /\ db = [id \in Ids |-> NoRow]
    /\ ret = NoCall
    /\ life = LifeIdle
    /\ updates = 0
    /\ args = [e \in 1..MaxExecs |-> NoArgs]
    /\ load = LoadIdle
    /\ pl = PlIdle
    /\ FeederInit

FeederSpec == ServiceConstructedInit /\ [][FeederNext]_vars
FeederSeqSpec == ServiceConstructedInit /\ [][FeederSeqNext]_vars

(***************************************************************************)
(* The device workflow of src/graph: build_device_workflow and its nodes,  *)
(* one run of workflow.ainvoke on the initial state the endpoints of       *)
(* src/api/device_api.py build.  Each node is one step, from its entry to  *)
(* the Command it returns; the graph runtime runs the nodes as built.      *)
(* The texts the nodes inspect are given by what the code reads in them:   *)
(* the request by the device keywords it contains, the classification      *)
(* output by its kind (a JSON object, braces that do not parse, an opening *)
(* brace with no closing one, text without an opening brace, or the call   *)
(* raising), the values of its two keys and the keywords it contains.      *)
(***************************************************************************)
ValidNodes == {"feeder_agent_node", "camera_agent_node", "sensor_agent_node"}
\* a keyword stands for the words the router looks for: "feeder" for feeder
\* and 喂食, "camera" for camera, 拍照 and 摄像, "sensor" for sensor, 传感器 and 水质
Keywords == {"feeder", "camera", "sensor"}
WordSets == SUBSET Keywords
QueryWordSets == {{}, {"camera"}, {"sensor"}, {"feeder"}}

Classifications ==
    [ kind : {"json"},
      target_node : ValidNodes \cup {"other_node", "absent"},
      device_type : {"feeder", "camera", "sensor", "CAMERA", "other", "absent", "nonstring"},
      words : {{}} ]
    \cup
    [ kind : {"badjson", "openbrace", "text"},
      target_node : {"absent"}, device_type : {"absent"}, words : WordSets ]
    \cup
    [ kind : {"raise"}, target_node : {"absent"}, device_type : {"absent"}, words : {{}} ]

NoAnswer == [kind |-> "none"]

\* str.lower()
Lower(str) == IF str = "CAMERA" THEN "camera" ELSE str

\* DeviceType.from_str
from_str(str) ==
    IF Lower(str) \in {"feeder", "camera", "sensor", "unknown"} THEN Lower(str) ELSE "unknown"

\* device_type = DeviceType.FEEDER; target_node = "feeder_agent_node"
Default == [device_type |-> "feeder", target_node |-> "feeder_agent_node"]

ParsedUnchecked(r) ==
    [ device_type |-> from_str(IF r.device_type = "absent" THEN "feeder" ELSE r.device_type),
      target_node |-> IF r.target_node = "absent" THEN "feeder_agent_node" ELSE r.target_node ]

\* The block under json.loads: the two keys with their defaults, then the
\* test of the node name.
Parsed(r) ==
    LET target == IF r.target_node = "absent" THEN "feeder_agent_node" ELSE r.target_node
        dtype == from_str(IF r.device_type = "absent" THEN "feeder" ELSE r.device_type)
    IN  IF target \notin ValidNodes
        THEN [device_type |-> "feeder", target_node |-> "feeder_agent_node"]
        ELSE [device_type |-> dtype, target_node |-> target]

KeywordRouteNoDefault(words) ==
    IF "feeder" \in words THEN [device_type |-> "feeder", target_node |-> "feeder_agent_node"]
    ELSE IF "camera" \in words THEN [device_type |-> "camera", target_node |-> "camera_agent_node"]
    ELSE [device_type |-> "sensor", target_node |-> "sensor_agent_node"]

\* if json_start == -1: the keywords of response_text.lower(), in the
\* order of the elif chain
KeywordRoute(words) ==
    IF "feeder" \in words THEN [device_type |-> "feeder", target_node |-> "feeder_agent_node"]
    ELSE IF "camera" \in words THEN [device_type |-> "camera", target_node |-> "camera_agent_node"]
    ELSE IF "sensor" \in words THEN [device_type |-> "sensor", target_node |-> "sensor_agent_node"]
    ELSE Default

\* invoke_simple raises, or from_str calls .lower() on a value that is not
\* a string: the outer except of device_router_node
RouterRaises(r) == r.kind = "raise" \/ (r.kind = "json" /\ r.device_type = "nonstring")

\* json_start is -1 after the parse: no opening brace, or JSONDecodeError
Route(r) ==
    IF r.kind = "json" THEN Parsed(r)
    ELSE IF r.kind \in {"badjson", "text"} THEN KeywordRoute(r.words)
    ELSE Default

\* Command(goto=target_node); a name that is no node ends the run
GoTo(target) == IF target \in ValidNodes THEN target ELSE "__end__"

\* initial_state of chat and of event_generator
InitialState(attached, query) ==
    [ phase |-> "on",
      pc |-> "__start__",
      attached |-> attached,     \* the nodes find event_queue in their state
      query |-> query,           \* the device keywords of state["query"]
      stages |-> <<>>,           \* the nodes entered so far
      events |-> <<>>,           \* the events put on event_queue so far
      decision |-> "None",       \* how the decision call of the gate went
      answer |-> NoAnswer,       \* the classification output received
      action |-> "None",         \* how the call of the device agent went
      expert_advice |-> "None",
      device_type |-> "None",
      current_node |-> "None",
      result |-> "None",
      error |-> "None" ]

PipelineInit ==
    \E attached \in BOOLEAN, query \in QueryWordSets : pl = InitialState(attached, query)

PlAt(pc) == pl.phase = "on" /\ pl.pc = pc
PlStep(p) == pl' = p /\ UNCHANGED <<schedVars, nr, st, db, life, updates, args, load, fs>>

PlEvent(type, node, device_type) == [type |-> type, node |-> node, device_type |-> device_type]

PutUnguarded(p, node, types) ==
    IF p.attached
    THEN [p EXCEPT !.events = @ \o [i \in 1..Len(types) |-> PlEvent(types[i], node, "None")]]
    ELSE [p EXCEPT !.error = node]

\* event_queue.put_nowait for each type in turn, behind `if event_queue:`
Put(p, node, types) ==
    IF p.attached
    THEN [p EXCEPT !.events = @ \o [i \in 1..Len(types) |-> PlEvent(types[i], node, "None")]]
    ELSE p

Entered(p, node) == [p EXCEPT !.stages = Append(@, node), !.pc = node]

\* builder.add_edge(START, "expert_gate_node")
workflow_start ==
    /\ PlAt("__start__")
    /\ PlStep([pl EXCEPT !.pc = "expert_gate_node"])
    /\ ret' = NoCall

GateOutcomes == {"raise", "direct", "advice", "consult_failed"}

\* expert_gate_node: the decision call raises, asks for no expert, or asks
\* for consult_expert, and consult_stream returns an answer or a failure.
Gate(p, outcome) ==
    LET p0 == Put(Entered(p, "expert_gate_node"), "expert_gate_node", <<"node", "status">>)
        p1 == IF outcome = "raise"
                 THEN [Put(p0, "expert_gate_node", <<"error">>) EXCEPT !.error = "expert_gate_node"]
                 ELSE IF outcome = "direct"
                 THEN Put(p0, "expert_gate_node", <<"status">>)
                 ELSE IF outcome = "advice"
                 THEN [Put(p0, "expert_gate_node", <<"expert_start", "expert_stream", "expert_done">>)
                          EXCEPT !.expert_advice = "advice"]
                 ELSE [Put(p0, "expert_gate_node", <<"expert_start", "expert_error">>)
                          EXCEPT !.expert_advice = "failed"]
    IN  [p1 EXCEPT !.decision = outcome,
                   !.current_node = "expert_gate_node",
                   !.pc = "device_router_node"]

expert_gate_node(outcome) ==
    /\ PlAt("expert_gate_node")
    /\ PlStep(Gate(pl, outcome))
    /\ ret' = NoCall

\* device_router_node on the classification output r.
Router(p, r) ==
    LET p0 == Put(Entered(p, "device_router_node"), "device_router_node", <<"node", "status">>)
        p1 == [p0 EXCEPT !.answer = r, !.current_node = "device_router_node"]
    IN  IF RouterRaises(r)
        THEN [Put(p1, "device_router_node", <<"error">>) EXCEPT
                 !.device_type = "feeder",
                 !.error = "device_router_node",
                 !.pc = "feeder_agent_node"]
        ELSE [p1 EXCEPT
                 !.events = IF p1.attached
                            THEN Append(@, PlEvent("routing", Route(r).target_node,
                                                   Route(r).device_type))
                            ELSE @,
                 !.device_type = Route(r).device_type,
                 !.pc = GoTo(Route(r).target_node)]

device_router_node(r) ==
    /\ PlAt("device_router_node")
    /\ PlStep(Router(pl, r))
    /\ ret' = NoCall

CaughtErrorOnly(p, node) == [p EXCEPT !.error = node, !.action = "raise"]

\* except Exception as e: of a device node, the update of its Command
Caught(p, node) == [p EXCEPT !.error = node, !.result = "failed", !.action = "raise"]

FeederClearing(p, devices, outcome) ==
    [Entered(p, "feeder_agent_node") EXCEPT
        !.error = IF outcome = "raise" THEN "feeder_agent_node" ELSE "None",
        !.result = IF outcome = "raise" THEN "failed" ELSE "answer",
        !.action = outcome,
        !.current_node = "feeder_agent_node",
        !.pc = "__end__"]

\* feeder_agent_node: get_devices returns devices, returns none or raises;
\* the agent answers or raises.
Feeder(p, devices, outcome) ==
    LET p0 == Put(Entered(p, "feeder_agent_node"), "feeder_agent_node",
                  IF devices = "found"
                  THEN <<"node", "status", "devices_found", "agent_start">>
                  ELSE <<"node", "status", "agent_start">>)
        p1 == IF outcome = "raise"
              THEN Caught(Put(p0, "feeder_agent_node", <<"error">>), "feeder_agent_node")
              ELSE [Put(p0, "feeder_agent_node", <<"message">>) EXCEPT
                       !.result = "answer", !.action = "answer"]
    IN  [p1 EXCEPT !.current_node = "feeder_agent_node", !.pc = "__end__"]

feeder_agent_node(devices, outcome) ==
    /\ PlAt("feeder_agent_node")
    /\ PlStep(Feeder(pl, devices, outcome))
    /\ ret' = NoCall

\* camera_agent_node and sensor_agent_node: DeviceAgentManager.initialize
\* creates neither agent, so invoke_camera_agent and invoke_sensor_agent
\* raise and the except block of the node runs.
DeviceNode(p, node) ==
    [Caught(Entered(p, node), node) EXCEPT !.current_node = node, !.pc = "__end__"]

device_agent_node(node) ==
    /\ node \in {"camera_agent_node", "sensor_agent_node"}
    /\ PlAt(node)
    /\ PlStep(DeviceNode(pl, node))
    /\ ret' = NoCall

\* END: ainvoke returns the final state to the endpoint, which answers with
\* success = final_state.get("error") is None.
Ended(p) == [p EXCEPT !.stages = Append(@, "__end__"), !.pc = "returned"]

workflow_end ==
    /\ PlAt("__end__")
    /\ PlStep(Ended(pl))
    /\ ret' = [ op |-> "ainvoke", success |-> pl.error = "None",
                device_type |-> pl.device_type, error |-> pl.error, result |-> pl.result ]

PipelineNext ==
    \/ workflow_start
    \/ \E outcome \in GateOutcomes : expert_gate_node(outcome)
    \/ \E r \in Classifications : device_router_node(r)
    \/ \E devices \in {"found", "none", "raise"}, outcome \in {"answer", "raise"} :
           feeder_agent_node(devices, outcome)
    \/ \E node \in {"camera_agent_node", "sensor_agent_node"} : device_agent_node(node)
    \/ workflow_end

RunInit ==
    /\ SchedInit
    /\ nr = NrIdle
    /\ st = StIdle
    /\ db = [id \in Ids |-> NoRow]
    /\ ret = NoCall
    /\ life = LifeIdle
    /\ updates = 0
    /\ args = [e \in 1..MaxExecs |-> NoArgs]
    /\ load = LoadIdle
    /\ fs = FsIdle
    /\ PipelineInit

PipelineSpec == RunInit /\ [][PipelineNext]_vars

\* The event loop runs the workflow task, and every awaited call returns or
\* raises.
PipelineFairSpec == PipelineSpec /\ WF_vars(PipelineNext)

(***************************************************************************)
(* Calls of TaskScheduler.add_task and TaskScheduler.update_task with      *)
(* what they return.  add_task is handed any job, update_task any id.      *)
(***************************************************************************)
\* The keywords update_task is called with: values the job does not have.
UpdateKwargs ==
    [ device_id      : Opt({"devB"}),
      feed_count     : Opt({3}),
      scheduled_time : Opt(SchedTimes),
      mode           : Opt(Modes) ]

call_add_task(id, dt, mode, dev, cnt) ==
    /\ add_task(id, dt, mode, dev, cnt)
    /\ ret' = [ op |-> "add_task", success |-> tasks[id] = 0, task_id |-> id,
                task |-> ScheduledTask(id, dev, cnt, dt, mode, now) ]
    /\ UNCHANGED <<db, life, updates, auxVars>>

call_update_task(id, kw) ==
    /\ updates < MaxUpdates
    /\ updates' = updates + 1
    /\ IF tasks[id] = 0
       THEN lock = "free" /\ UNCHANGED <<schedVars, nr, st>>
       ELSE update_task(id, kw)
    /\ ret' = [ op |-> "update_task", success |-> tasks[id] # 0, task_id |-> id, kw |-> kw ]
    /\ UNCHANGED <<db, life, auxVars>>

CallNext ==
    \/ \E id \in OneId, dt \in SchedTimes, mode \in Modes,
          dev \in Devices, cnt \in FeedCounts : call_add_task(id, dt, mode, dev, cnt)
    \/ \E id \in OneId, kw \in UpdateKwargs : call_update_task(id, kw)
    \/ /\ start
       /\ Quiet
    \/ /\ scheduler_loop_begin
       /\ Quiet
    \/ /\ \E id \in Ids : scheduler_loop_visit(id)
       /\ Quiet
    \/ /\ scheduler_loop_end
       /\ Quiet
    \/ /\ \E e \in 1..MaxExecs : run_task_call(e)
       /\ Quiet
    \/ /\ \E e \in 1..MaxExecs, outcome \in Outcomes : run_task_return(e, outcome)
       /\ Quiet
    \/ /\ \E e \in 1..MaxExecs : run_task_clear(e)
       /\ Quiet
    \/ /\ \E e \in 1..MaxExecs : run_task_next_run(e)
       /\ Quiet
    \/ /\ \E e \in 1..MaxExecs : run_task_finish(e)
       /\ Quiet
    \/ /\ Advance
       /\ Quiet

CallSpec == Init /\ [][CallNext]_vars

(***************************************************************************)
(* TaskScheduler.start and TaskScheduler.stop, called from two threads.    *)
(* Neither takes the lock, so their reads and writes of self.running,      *)
(* self.executor and self.scheduler_thread interleave with each other and  *)
(* with the tick loops.  life holds                                        *)
(*   caller            where each calling thread is in start() or stop(),  *)
(*   executor          self.executor, an index into pools (0: None),       *)
(*   scheduler_thread  self.scheduler_thread, an index into threads,       *)
(*   pools             every ThreadPoolExecutor created: "open" or         *)
(*                     "shutdown",                                         *)
(*   threads           every tick-loop thread created: its position, its   *)
(*                     local `now` and the snapshot entries left to visit, *)
(*   poolOf            for every execution, the pool it was submitted to,  *)
(*   quiesced          a call of stop() has returned and no call of        *)
(*                     start() has been made since or was in progress.     *)
(***************************************************************************)
MaxStarts == 2      \* calls of start() that get past its test of self.running

LifeInit ==
    life = [ phase |-> "on",
             caller |-> [c \in Callers |-> [pc |-> "idle", pool |-> 0]],
             executor |-> 0,
             scheduler_thread |-> 0,
             pools |-> <<>>,
             threads |-> <<>>,
             poolOf |-> <<>>,
             quiesced |-> FALSE ]

CallerAt(c, pc) == life.phase # "off" /\ life.caller[c].pc = pc
ThreadIds == 1..Len(life.threads)
Alive(i) == life.threads[i].pc # "exited"
Starting == {c \in Callers : life.caller[c].pc = "start_set"}
LifeStep(l) == life' = l /\ UNCHANGED <<db, ret, updates, auxVars, nr, st, loopPc, loopNow, loopTodo>>

\* start(): `if self.running: return`
start_check(c) ==
    /\ CallerAt(c, "idle")
    /\ ~running
    /\ Len(life.pools) + Cardinality(Starting) < MaxStarts
    /\ LifeStep([life EXCEPT !.caller[c].pc = "start_set", !.quiesced = FALSE])
    /\ UNCHANGED <<now, objs, tasks, futures, execs, running, lock>>

\* start(): self.running = True, the stop event cleared, a new pool made,
\* the tick-loop thread created and started; start() returns
start_set(c) ==
    /\ CallerAt(c, "start_set")
    /\ running' = TRUE
    /\ LifeStep([life EXCEPT !.caller[c].pc = "idle",
                             !.pools = Append(@, "open"),
                             !.executor = Len(life.pools) + 1,
                             !.threads = Append(@, [pc |-> "wait", now |-> 0, todo |-> {}]),
                             !.scheduler_thread = Len(life.threads) + 1])
    /\ UNCHANGED <<now, objs, tasks, futures, execs, lock>>

\* stop(): `if not self.running: return`, self.running = False, event set;
\* then self.scheduler_thread.join(timeout=5) returns, the thread having
\* exited or not.
stop_begin(c) ==
    /\ CallerAt(c, "idle")
    /\ running
    /\ running' = FALSE
    /\ LifeStep([life EXCEPT !.caller[c].pc = "stop_shutdown"])
    /\ UNCHANGED <<now, objs, tasks, futures, execs, lock>>

\* stop(): self.executor.shutdown(wait=True) closes the pool to new work
stop_shutdown(c) ==
    /\ CallerAt(c, "stop_shutdown")
    /\ LifeStep(IF life.executor = 0
                THEN [life EXCEPT !.caller[c] = [pc |-> "stop_wait", pool |-> 0]]
                ELSE [life EXCEPT !.caller[c] = [pc |-> "stop_wait", pool |-> life.executor],
                                  !.pools[life.executor] = "shutdown"])
    /\ UNCHANGED <<now, objs, tasks, futures, execs, running, lock>>

\* stop(): shutdown(wait=True) returns when the pool's work is done, and
\* stop() returns
stop_return(c) ==
    /\ CallerAt(c, "stop_wait")
    /\ \A e \in ExecIds : life.poolOf[e] = life.caller[c].pool => execs[e].pc = "done"
    /\ LifeStep([life EXCEPT !.caller[c] = [pc |-> "idle", pool |-> 0],
                             !.quiesced = (Starting = {})])
    /\ UNCHANGED <<now, objs, tasks, futures, execs, running, lock>>

(***************************************************************************)
(* _scheduler_loop on tick-loop thread i.  Its positions: "wait" (in       *)
(* stop_event.wait or just started, about to test self.running),           *)
(* "locking" (the test passed, about to take the lock), "pass" (visiting   *)
(* the snapshot under the lock), "cleanup" (the lock released, about to    *)
(* run _cleanup_futures), "exited".                                        *)
(***************************************************************************)
ThreadAt(i, pc) == life.phase # "off" /\ i \in ThreadIds /\ life.threads[i].pc = pc

\* `while self.running:`
thread_check(i) ==
    /\ ThreadAt(i, "wait")
    /\ LifeStep([life EXCEPT !.threads[i].pc = IF running THEN "locking" ELSE "exited"])
    /\ UNCHANGED <<now, objs, tasks, futures, execs, running, lock>>

\* now = datetime.now(self.tz); with self.lock: list(self.tasks.items())
thread_begin(i) ==
    /\ ThreadAt(i, "locking")
    /\ lock = "free"
    /\ lock' = "loop"
    /\ LifeStep([life EXCEPT !.threads[i] = [pc |-> "pass", now |-> now, todo |-> Registered]])
    /\ UNCHANGED <<now, objs, tasks, futures, execs, running>>

\* executor.submit on a pool that was shut down raises RuntimeError
SubmitRaises == life.pools[life.executor] = "shutdown"

\* One entry of the snapshot.  _execute_task sets is_running, last_run and
\* run_count and then submits; when submit raises, the exception leaves the
\* with block and the try block, and the except block waits.
thread_visit(i, id) ==
    /\ ThreadAt(i, "pass")
    /\ id \in life.threads[i].todo
    /\ IF ~Due(objs[tasks[id]], life.threads[i].now)
       THEN /\ LifeStep([life EXCEPT !.threads[i].todo = @ \ {id}])
            /\ UNCHANGED <<objs, execs, futures, lock>>
       ELSE IF SubmitRaises
       THEN /\ objs' = [objs EXCEPT ![tasks[id]] =
                           [@ EXCEPT !.is_running = TRUE,
                                     !.last_run = now,
                                     !.run_count = @ + 1]]
            /\ lock' = "free"
            /\ LifeStep([life EXCEPT !.threads[i] = [pc |-> "wait", now |-> 0, todo |-> {}]])
            /\ UNCHANGED <<execs, futures>>
       ELSE /\ execute_task(id)
            /\ LifeStep([life EXCEPT !.threads[i].todo = @ \ {id},
                                     !.poolOf = Append(@, life.executor)])
            /\ UNCHANGED lock
    /\ UNCHANGED <<now, tasks, running>>

\* the end of the with block
thread_release(i) ==
    /\ ThreadAt(i, "pass")
    /\ life.threads[i].todo = {}
    /\ lock' = "free"
    /\ LifeStep([life EXCEPT !.threads[i] = [pc |-> "cleanup", now |-> 0, todo |-> {}]])
    /\ UNCHANGED <<now, objs, tasks, futures, execs, running>>

\* self._cleanup_futures(), then stop_event.wait
thread_cleanup(i) ==
    /\ ThreadAt(i, "cleanup")
    /\ futures' = cleanup_futures
    /\ LifeStep([life EXCEPT !.threads[i].pc = "wait"])
    /\ UNCHANGED <<now, objs, tasks, execs, running, lock>>

\* _cleanup_futures reads self.futures without the lock: while another tick
\* loop is in its pass and writes the dict, the iteration over items() can
\* raise RuntimeError, which the except block logs before it waits.
thread_cleanup_raises(i) ==
    /\ ThreadAt(i, "cleanup")
    /\ \E j \in ThreadIds \ {i} : life.threads[j].pc = "pass"
    /\ LifeStep([life EXCEPT !.threads[i].pc = "wait"])
    /\ UNCHANGED <<now, objs, tasks, futures, execs, running, lock>>

ThreadStep(i) ==
    \/ thread_check(i)
    \/ thread_begin(i)
    \/ \E id \in Ids : thread_visit(i, id)
    \/ thread_release(i)
    \/ thread_cleanup(i)
    \/ thread_cleanup_raises(i)

ThreadNext == \E i \in 1..MaxStarts : ThreadStep(i)

WorkerNext ==
    \/ /\ \E e \in 1..MaxExecs : run_task_call(e)
       /\ UNCHANGED extVars
    \/ /\ \E e \in 1..MaxExecs : run_task_return(e, "True")
       /\ UNCHANGED extVars
    \/ /\ \E e \in 1..MaxExecs : run_task_clear(e)
       /\ UNCHANGED extVars
    \/ /\ \E e \in 1..MaxExecs : run_task_next_run(e)
       /\ UNCHANGED extVars
    \/ /\ \E e \in 1..MaxExecs : run_task_finish(e)
       /\ UNCHANGED extVars

\* The jobs of the lifecycle specifications: daily jobs due at tick 1.
LifeTimes == {[wall |-> 1, off |-> None]}
LifeModes == {"daily"}

CallerNext ==
    \/ \E c \in Callers : start_check(c)
    \/ \E c \in Callers : start_set(c)
    \/ \E c \in Callers : stop_begin(c)
    \/ \E c \in Callers : stop_shutdown(c)
    \/ \E c \in Callers : stop_return(c)

LifeNext ==
    \/ /\ \E id \in OneId, dt \in LifeTimes, mode \in LifeModes,
             dev \in Devices, cnt \in FeedCounts : add_future_task(id, dt, mode, dev, cnt)
       /\ UNCHANGED extVars
    \/ CallerNext
    \/ ThreadNext
    \/ WorkerNext
    \/ /\ Advance
       /\ UNCHANGED extVars

\* The scheduler constructed, start() not yet called.
ConstructedInit ==
    /\ SchedInit
    /\ nr = NrIdle
    /\ st = StIdle
    /\ db = [id \in Ids |-> NoRow]
    /\ ret = NoCall
    /\ updates = 0
    /\ AuxInit
    /\ LifeInit

LifeSpec == ConstructedInit /\ [][LifeNext]_vars

\* Every tick-loop thread and the pool's workers keep being scheduled.
LifeFairSpec ==
    /\ LifeSpec
    /\ \A i \in 1..MaxStarts : WF_vars(ThreadStep(i))
    /\ WF_vars(WorkerNext)

(***************************************************************************)
(* Two jobs, with different ids, under one tick loop: the jobs are added   *)
(* and never removed or updated, and their actions succeed, fail or raise. *)
(***************************************************************************)
PairTimes == {[wall |-> 1, off |-> None]}

TickNext ==
    \/ /\ scheduler_loop_begin
       /\ UNCHANGED extVars
    \/ /\ \E id \in Ids : scheduler_loop_visit(id)
       /\ UNCHANGED extVars
    \/ /\ scheduler_loop_end
       /\ UNCHANGED extVars

RunTaskNext ==
    \/ /\ \E e \in 1..MaxExecs : run_task_call(e)
       /\ UNCHANGED extVars
    \/ /\ \E e \in 1..MaxExecs, outcome \in Outcomes : run_task_return(e, outcome)
       /\ UNCHANGED extVars
    \/ /\ \E e \in 1..MaxExecs : run_task_clear(e)
       /\ UNCHANGED extVars
    \/ /\ \E e \in 1..MaxExecs : run_task_next_run(e)
       /\ UNCHANGED extVars
    \/ /\ \E e \in 1..MaxExecs : run_task_finish(e)
       /\ UNCHANGED extVars

PairNext ==
    \/ /\ \E id \in Ids, dt \in PairTimes, mode \in Modes,
             dev \in Devices, cnt \in FeedCounts : add_future_task(id, dt, mode, dev, cnt)
       /\ UNCHANGED extVars
    \/ /\ start
       /\ UNCHANGED extVars
    \/ TickNext
    \/ RunTaskNext
    \/ /\ Advance
       /\ UNCHANGED extVars

PairSpec == Init /\ [][PairNext]_vars

\* The tick loop and the pool's workers keep being scheduled.
PairFairSpec == PairSpec /\ WF_vars(TickNext) /\ WF_vars(RunTaskNext)

\* The tick loop keeps being scheduled; an action function may take for ever.
SlowFairSpec == PairSpec /\ WF_vars(TickNext)

(***************************************************************************)
(* Properties of the scheduler.                                            *)
(***************************************************************************)
ExecsOf(o) == {e \in ExecIds : execs[e].obj = o}
Invoked(e) == execs[e].pc \notin {"queued", "cancelled"}

\* C1: a `once` job has its action function invoked at most once, and when
\* its execution has completed with success its run_count and success_count
\* are both 1, under every interleaving of the tick loop with _run_task.
C1_OnceInvokedOnce ==
    \A o \in ObjIds :
        objs[o].mode = "once" =>
            /\ Cardinality({e \in ExecsOf(o) : Invoked(e)}) <= 1
            /\ \A e \in ExecsOf(o) :
                   execs[e].pc = "done" /\ execs[e].res = "True" =>
                       objs[o].run_count = 1 /\ objs[o].success_count = 1

\* C2: for every job id at most one execution of the id's action function is
\* in progress at any time, whatever add_task, remove_task, update_task and
\* the tick loop do.
C2_OneExecutionPerId ==
    \A id \in Ids :
        Cardinality({e \in Executing : objs[execs[e].obj].task_id = id}) <= 1

\* C9: when the firing of a `daily` job completes within a day of the instant
\* it was due, the recomputed next_run is the previous next_run plus exactly
\* one day, so the successive values increase in steps of 24 hours.
C9_DailyStepsOfOneDay ==
    [][ \A e \in ExecIds :
            LET o == execs[e].obj
            IN  ( /\ execs[e].pc = "cleared"
                  /\ execs'[e].pc = "rescheduled"
                  /\ objs[o].mode = "daily"
                  /\ now < objs[o].next_run + DayLen )
                => objs'[o].next_run = objs[o].next_run + DayLen ]_vars

\* C10: once an execution of a `once` job has completed, the job's next_run
\* is None, the job is not in the job map, and that execution is the only
\* one the job was ever dispatched for.
C10_OnceGoneAfterFiring ==
    \A e \in ExecIds :
        LET o == execs[e].obj
        IN  execs[e].pc = "done" /\ objs[o].mode = "once" =>
                /\ objs[o].next_run = None
                /\ tasks[objs[o].task_id] # o
                /\ ExecsOf(o) = {e}

\* An execution of the job object o has cleared is_running and has not yet
\* written next_run.
HalfCompleted(o) == \E e \in ExecsOf(o) : execs[e].pc = "cleared"

\* C33: the completion of an execution is atomic for the read pass of the
\* tick loop: the pass never visits a job whose is_running has been cleared
\* while its next_run still holds the instant already fired.
C33_CompletionAtomic ==
    [][ \A id \in Ids :
            (loopPc = "pass" /\ id \in loopTodo /\ loopTodo' = loopTodo \ {id})
            => ~HalfCompleted(tasks[id]) ]_vars

\* C39: a job that is not running has run_count = success_count +
\* failure_count, and a job that is running has
\* run_count - 1 <= success_count + failure_count <= run_count.
C39_CountersAgree ==
    \A o \in ObjIds :
        LET settled == objs[o].success_count + objs[o].failure_count
        IN  /\ ~objs[o].is_running => objs[o].run_count = settled
            /\ objs[o].is_running =>
                   (objs[o].run_count - 1 <= settled /\ settled <= objs[o].run_count)

\* An execution has returned and counted its outcome, and is_running is not
\* cleared yet.
C39_Witness ==
    /\ \E o \in ObjIds :
           /\ objs[o].is_running
           /\ objs[o].run_count >= 1
           /\ objs[o].run_count = objs[o].success_count + objs[o].failure_count
    /\ \E e \in ExecIds : execs[e].pc = "returned"

(***************************************************************************)
(* Properties of start() and stop().                                       *)
(***************************************************************************)
AliveThreads == {i \in ThreadIds : Alive(i)}
OpenPools == {p \in 1..Len(life.pools) : life.pools[p] = "open"}

\* C16: under every interleaving of calls of start() and stop() at most one
\* tick-loop thread and at most one worker pool are active.
C16_OneLoopOnePool ==
    /\ Cardinality(AliveThreads) <= 1
    /\ Cardinality(OpenPools) <= 1

\* C17: once stop() has returned (and start() has not been called since),
\* no execution of a job action is waiting to start or is in progress.
C17_QuietAfterStop ==
    (life.quiesced /\ ~running) =>
        \A e \in ExecIds : execs[e].pc \notin {"queued", "executing"}

\* C18: whatever stop() does concurrently with the tick loop, a job whose
\* is_running is True has an execution submitted that has yet to clear it.
C18_RunningJobHasExecution ==
    \A o \in ObjIds :
        objs[o].is_running =>
            \E e \in ExecsOf(o) : execs[e].pc \in {"queued", "executing", "returned"}

\* The scheduler is running and the job registered at id is due at the clock.
DueNow(id) ==
    /\ running
    /\ tasks[id] # 0
    /\ objs[tasks[id]].next_run # None
    /\ objs[tasks[id]].next_run <= now

\* C20: an exception inside an iteration of the tick loop does not end the
\* loop: while the scheduler is running the loop iterates again, so a job
\* that is due is eventually dispatched.
C20_DueJobDispatched ==
    \A id \in Ids :
        DueNow(id) ~> (~DueNow(id) \/ ExecsOf(tasks[id]) # {})

\* The execution e of a failed action takes a step of _run_task.
FailedStep(e, from, to) ==
    /\ execs[e].pc = from
    /\ execs'[e].pc = to
    /\ execs'[e].res \in {"False", "raise"}

OthersUnchanged(o) ==
    /\ Len(objs') = Len(objs)
    /\ \A p \in ObjIds \ {o} : objs'[p] = objs[p]

\* An execution of the job registered at id has had its action called and
\* returned.
Executed(id) ==
    \E e \in ExecIds :
        /\ objs[execs[e].obj].task_id = id
        /\ execs[e].pc \in {"returned", "cleared", "rescheduled", "done"}

NoRoomFor(id) ==
    /\ Len(execs) = MaxExecs
    /\ \A e \in ExecIds : objs[execs[e].obj].task_id # id

\* C19: when the action of a job raises or returns failure, the failure is
\* recorded on that job only (failure_count, last_error, then is_running
\* cleared) and no field of another job changes; the tick loop keeps
\* running, and another job that is due is still dispatched and executed.
C19_FailureStaysOnItsJob ==
    /\ [][ \A e \in ExecIds :
               LET o == execs[e].obj
               IN  /\ FailedStep(e, "executing", "returned") =>
                          /\ objs'[o].failure_count = objs[o].failure_count + 1
                          /\ objs'[o].success_count = objs[o].success_count
                          /\ objs'[o].last_error # "None"
                          /\ OthersUnchanged(o)
                          /\ UNCHANGED <<tasks, futures, running, loopPc>>
                   /\ FailedStep(e, "returned", "cleared") =>
                          /\ objs'[o].is_running = FALSE
                          /\ OthersUnchanged(o)
                          /\ UNCHANGED <<tasks, futures, running, loopPc>>
                   /\ FailedStep(e, "cleared", "rescheduled") =>
                          /\ OthersUnchanged(o)
                          /\ UNCHANGED <<tasks, futures, running, loopPc>>
                   /\ FailedStep(e, "rescheduled", "done") =>
                          /\ UNCHANGED <<objs, futures, running, loopPc>>
                          /\ \A id \in Ids \ {objs[o].task_id} : tasks'[id] = tasks[id] ]_vars
    /\ \A id \in Ids :
           ( /\ running
             /\ tasks[id] # 0
             /\ Due(objs[tasks[id]], now)
             /\ \E e \in ExecIds : execs[e].res \in {"False", "raise"} /\ execs[e].obj # tasks[id] )
           ~> (Executed(id) \/ NoRoomFor(id))

\* One job's action has failed and the failure is recorded on it; the other
\* job was dispatched after that and its action has succeeded.
C19_Witness ==
    /\ running
    /\ Len(execs) = 2
    /\ execs[1].obj # execs[2].obj
    /\ execs[1].res \in {"False", "raise"}
    /\ execs[2].res = "True"
    /\ LET failed == objs[execs[1].obj]
           other == objs[execs[2].obj]
       IN  /\ failed.task_id # other.task_id
           /\ failed.failure_count = 1 /\ failed.last_error # "None" /\ ~failed.is_running
           /\ other.failure_count = 0 /\ other.success_count = 1
           /\ other.last_error = "None"
           /\ other.last_run > failed.last_run

(***************************************************************************)
(* Properties of the calls of the scheduler.                               *)
(***************************************************************************)
\* C13: add_task with an id that is already registered returns False and
\* leaves the job map and the registered job as they were; with a new id it
\* returns True and registers exactly the job it was handed, at that id.
C13_AddTaskFrame ==
    [][ Returns("add_task") =>
          LET id == ret'.task_id
          IN  IF tasks[id] # 0
              THEN /\ ret'.success = FALSE
                   /\ UNCHANGED <<tasks, objs, futures, execs>>
              ELSE /\ ret'.success = TRUE
                   /\ tasks'[id] \in 1..Len(objs')
                   /\ tasks'[id] \notin ObjIds
                   /\ objs'[tasks'[id]] = ret'.task
                   /\ \A other \in Ids \ {id} : tasks'[other] = tasks[other]
                   /\ \A o \in ObjIds : objs'[o] = objs[o]
                   /\ UNCHANGED <<futures, execs>> ]_vars

\* add_task has answered False for the id of a job that is being executed.
C13_Witness ==
    /\ ret.op = "add_task"
    /\ ~ret.success
    /\ tasks[ret.task_id] # 0
    /\ objs[tasks[ret.task_id]].is_running
    /\ objs[tasks[ret.task_id]] # ret.task

\* add_task has answered True and the id maps to the job it was handed.
C13_WitnessNew ==
    /\ ret.op = "add_task"
    /\ ret.success
    /\ objs[tasks[ret.task_id]] = ret.task

\* The value of field `key` after an update with keywords kw.
Provided(kw, key, given, kept) == IF Given(kw, key) THEN given ELSE kept

\* C15: update_task changes, of the job with the given id, only the fields
\* among device_id, feed_count, scheduled_time and mode that are provided,
\* and next_run, which is recomputed exactly when scheduled_time or mode is
\* provided; the telemetry of the job and every other job are unchanged.
\* With an unknown id it returns False and changes nothing.
C15_UpdateTaskFrame ==
    [][ Returns("update_task") =>
          LET id == ret'.task_id
              kw == ret'.kw
          IN  IF tasks[id] = 0
              THEN /\ ret'.success = FALSE
                   /\ UNCHANGED <<tasks, objs, futures, execs>>
              ELSE LET o == tasks[id]
                       old == objs[o]
                       new == objs'[o]
                   IN  /\ ret'.success = TRUE
                       /\ new.device_id =
                              Provided(kw, "device_id", Arg(kw, "device_id"), old.device_id)
                       /\ new.feed_count =
                              Provided(kw, "feed_count", Arg(kw, "feed_count"), old.feed_count)
                       /\ new.scheduled_time =
                              Provided(kw, "scheduled_time",
                                       ToZone(Arg(kw, "scheduled_time")), old.scheduled_time)
                       /\ new.mode = Provided(kw, "mode", Arg(kw, "mode"), old.mode)
                       /\ new.next_run =
                              IF Given(kw, "scheduled_time") \/ Given(kw, "mode")
                              THEN calculate_initial_next_run(new.mode, new.scheduled_time, now)
                              ELSE old.next_run
                       /\ new.task_id = old.task_id
                       /\ new.last_run = old.last_run
                       /\ new.run_count = old.run_count
                       /\ new.success_count = old.success_count
                       /\ new.failure_count = old.failure_count
                       /\ new.last_error = old.last_error
                       /\ new.is_running = old.is_running
                       /\ Len(objs') = Len(objs)
                       /\ \A other \in ObjIds \ {o} : objs'[other] = objs[other]
                       /\ UNCHANGED <<tasks, futures, execs>> ]_vars

\* update_task has changed the device and the mode, not the feed count, of a
\* job that is being executed: a daily job that is now a once job.
C15_Witness ==
    /\ ret.op = "update_task"
    /\ ret.success
    /\ Given(ret.kw, "device_id") /\ Given(ret.kw, "mode")
    /\ ~Given(ret.kw, "feed_count") /\ ~Given(ret.kw, "scheduled_time")
    /\ LET task == objs[tasks[ret.task_id]]
       IN  /\ task.device_id = "devB"
           /\ task.feed_count \in FeedCounts
           /\ task.mode = "once"
           /\ task.next_run = task.scheduled_time
           /\ task.is_running
           /\ task.run_count = 1

\* update_task has answered False for an id that is not registered.
C15_WitnessUnknown ==
    /\ ret.op = "update_task"
    /\ ~ret.success
    /\ tasks[ret.task_id] = 0
    /\ objs # <<>>

(***************************************************************************)
(* Properties of the schedule service.                                     *)
(***************************************************************************)
\* C11: create_task with mode once and a scheduled time that is not after
\* the clock returns failure, and the call creates no persisted record and
\* registers no job.
C11_PastOnceRejected ==
    [][ ( /\ Returns("create_schedule_task")
          /\ FeedCountAllowed(ret'.feed_count)
          /\ ret'.mode = "once"
          /\ ret'.scheduled_time <= now )
        => /\ ret'.success = FALSE
           /\ UNCHANGED <<db, tasks, objs>> ]_vars

\* create_task has refused a once job whose time was the clock's or earlier.
C11_Witness ==
    /\ ret.op = "create_schedule_task"
    /\ FeedCountAllowed(ret.feed_count)
    /\ ret.mode = "once"
    /\ ret.scheduled_time <= now
    /\ ~ret.success
    /\ Registered = {}
    /\ \A id \in Ids : db[id] = NoRow

\* C12: a schedule-creation request whose feed_count is outside 1..10 is
\* answered with failure, and it creates no persisted record and no job.
C12_CountOutOfRangeRejected ==
    [][ ( /\ Returns("create_schedule_task")
          /\ ret'.feed_count \notin 1..10 )
        => /\ ret'.success = FALSE
           /\ UNCHANGED <<db, tasks, objs>> ]_vars

\* A daily job with a feed_count above the range has been refused.
C12_Witness ==
    /\ ret.op = "create_schedule_task"
    /\ ret.feed_count > 10
    /\ ret.mode = "daily"
    /\ ~ret.success
    /\ Registered = {}
    /\ \A id \in Ids : db[id] = NoRow

\* C14: once remove_task has removed a job whose execution is in flight, the
\* late result of that execution changes neither the success and failure
\* counters of the removed job nor the status of its persisted record.
C14_LateResultDiscarded ==
    [][ \A e \in ExecIds :
            LET o == execs[e].obj
                id == objs[o].task_id
            IN  ( /\ execs[e].pc = "executing"
                  /\ tasks[id] # o
                  /\ db[id].status = "cancelled" )
                => /\ objs'[o].success_count = objs[o].success_count
                   /\ objs'[o].failure_count = objs[o].failure_count
                   /\ db'[id].status = db[id].status ]_vars

(***************************************************************************)
(* Properties of the persisted records (ServiceSpec).                      *)
(***************************************************************************)
\* Execution e returns from execute_func in this step.
FiringReturns(e) ==
    /\ e \in ExecIds
    /\ execs[e].pc = "executing"
    /\ execs'[e].pc = "returned"

\* The status of the record of id changes to completed or failed.
Settled(id) ==
    /\ db'[id].status \in {"completed", "failed"}
    /\ db'[id].status # db[id].status

\* C21: a record whose mode is daily keeps its status, pending, across the
\* firings of its job, whether they succeed or fail, and a record moves to
\* completed or failed only by a firing executed with mode once.
C21_DailyStaysPending ==
    [][ /\ \A e \in 1..MaxExecs :
              ( /\ FiringReturns(e)
                /\ db[args[e].task_id].status # "none"
                /\ db[args[e].task_id].mode = "daily" )
              => db'[args[e].task_id].status = db[args[e].task_id].status
        /\ \A id \in Ids :
              Settled(id) => \E e \in 1..MaxExecs :
                                 /\ FiringReturns(e)
                                 /\ args[e].task_id = id
                                 /\ args[e].mode = "once" ]_vars

\* C22: cancelled is terminal.  Once delete_task has set the status of a
\* record to cancelled no later step changes it, the return of an execution
\* that was in flight included, and the job is not in the scheduler.
C22_CancelledIsTerminal ==
    [][ \A id \in Ids :
            db[id].status = "cancelled"
            => /\ db'[id].status = "cancelled"
               /\ tasks[id] = 0
               /\ tasks'[id] = 0 ]_vars

(***************************************************************************)
(* Properties of load_pending_tasks (LoadSpec).                            *)
(***************************************************************************)
\* The row of id is the one this step of load_pending_tasks handles.
LoadVisits(id) ==
    /\ load.pc = "loop"
    /\ load'.pc = "loop"
    /\ id \in load.todo
    /\ id \notin load'.todo

\* Some execution was submitted for the job of id.
Fired(id) == \E e \in ExecIds : objs[execs[e].obj].task_id = id

\* The job registered under id is the one the row describes.
LoadedAs(job, row) ==
    /\ job.mode = row.mode
    /\ job.device_id = row.device_id
    /\ job.feed_count = row.feed_count
    /\ job.scheduled_time = row.scheduled_time
    /\ job.next_run # None
    /\ row.mode = "once" => job.next_run = row.scheduled_time

C24_AuthExpiryRetriedOnce ==
    [][ (ret'.op = "feed" /\ ret'.first = "7" /\ ret'.cached)
        => /\ ret'.relogins = 1
           /\ ret'.logins = 1
           /\ ret'.relogin_ok => (ret'.stage = "retry" /\ ret'.attempts = 2)
           /\ ~ret'.relogin_ok => (ret'.stage = "first" /\ ret'.attempts = 1) ]_vars

\* C25: a wrapped call whose own attempt failed by a transport error, a
\* failed login or a status other than 7 is returned without a re-login and
\* without a retry, whatever calls were made on the instance before.
C25_OtherFailureNotRetried ==
    [][ (ret'.op = "feed" /\ ret'.first \in {"err", "nologin", "0"})
        => /\ ret'.relogins = 0
           /\ ret'.stage = "first"
           /\ ret'.attempts <= 1 ]_vars

(***************************************************************************)
(* Properties of the device workflow.                                      *)
(***************************************************************************)
StagePaths ==
    { <<"expert_gate_node", "device_router_node", node, "__end__">> : node \in ValidNodes }

Prefix(s, t) == Len(s) <= Len(t) /\ \A i \in 1..Len(s) : s[i] = t[i]

\* C26: every run of the workflow visits the gate, the router, exactly one of
\* the three device nodes and then the end, in this order and each once,
\* whatever the classification output is, and every run reaches the end.
C26_StageOrder ==
    /\ [](pl.phase = "on" => \E path \in StagePaths : Prefix(pl.stages, path))
    /\ (pl.phase = "on") ~> (pl.phase = "on" /\ pl.stages \in StagePaths)

\* A run that ended after a classification naming a node that does not exist.
C26_Witness ==
    /\ pl.phase = "on"
    /\ pl.pc = "returned"
    /\ pl.answer.kind = "json"
    /\ pl.answer.target_node = "other_node"
    /\ pl.stages = <<"expert_gate_node", "device_router_node", "feeder_agent_node", "__end__">>

\* C27: a failure inside the gate, the decision call raising or the
\* consultation of the expert failing, is recorded in the error field by the
\* gate, and the run proceeds to the router.
C27_GateFailureRecorded ==
    [][ (PlAt("expert_gate_node") /\ pl'.decision \in {"raise", "consult_failed"})
        => /\ pl'.pc = "device_router_node"
           /\ pl'.error # "None" ]_vars

Unparseable(r) == r.kind \in {"text", "badjson", "openbrace"}

\* C28: when the classification output does not parse as JSON and contains
\* no device keyword, the router selects feeder, goes to the feeder node and,
\* when the nodes have an event queue, puts a routing event naming feeder.
C28_DefaultFeeder ==
    [][ (PlAt("device_router_node") /\ Unparseable(pl'.answer) /\ pl'.answer.words = {})
        => /\ pl'.device_type = "feeder"
           /\ pl'.pc = "feeder_agent_node"
           /\ pl.attached =>
                  /\ Len(pl'.events) = Len(pl.events) + 3
                  /\ pl'.events[Len(pl'.events)]
                         = PlEvent("routing", "feeder_agent_node", "feeder") ]_vars

\* The router has just routed a text without braces and without keywords,
\* with an event queue.
C28_Witness ==
    /\ PlAt("feeder_agent_node")
    /\ pl.attached
    /\ pl.answer.kind = "text"
    /\ pl.answer.words = {}
    /\ pl.device_type = "feeder"
    /\ pl.events[Len(pl.events)] = PlEvent("routing", "feeder_agent_node", "feeder")

\* C29: when the classification output does not parse, the keyword fallback
\* of the router reads the text of the request: a request with a camera or a
\* sensor keyword goes to that device, and feeder is the default only when
\* the request has neither.
C29_FallbackOnRequest ==
    [][ (PlAt("device_router_node") /\ Unparseable(pl'.answer))
        => /\ "camera" \in pl.query => pl'.pc = "camera_agent_node"
           /\ "sensor" \in pl.query => pl'.pc = "sensor_agent_node"
           /\ pl'.pc = "feeder_agent_node" => pl.query \cap {"camera", "sensor"} = {} ]_vars

\* C30: in each device node an exception raised by the action is caught in
\* the node and recorded in both error and result, the run goes on to the
\* end, and ainvoke returns the final state with both fields set.
C30_ActionFailureCaught ==
    /\ [][ (pl.phase = "on" /\ pl.pc \in ValidNodes /\ pl'.action = "raise")
           => /\ pl'.error = pl.pc
              /\ pl'.result = "failed"
              /\ pl'.pc = "__end__" ]_vars
    /\ [][ (PlAt("__end__") /\ pl.action = "raise" /\ pl' # pl)
           => /\ ret'.op = "ainvoke"
              /\ ret'.error # "None"
              /\ ret'.result = "failed" ]_vars
    /\ (pl.phase = "on" /\ pl.action = "raise") ~> (pl.phase = "on" /\ pl.pc = "returned")

\* A run in which the feeder agent raised has returned.
C30_Witness ==
    /\ PlAt("returned")
    /\ pl.action = "raise"
    /\ pl.stages[3] = "feeder_agent_node"
    /\ pl.error = "feeder_agent_node"
    /\ pl.result = "failed"
    /\ ret.op = "ainvoke"

StageEvent(node) ==
    \E i \in 1..Len(pl.events) : pl.events[i].type = "node" /\ pl.events[i].node = node

\* C31: with an event queue, the entry into every node of the run, the gate,
\* the router and the device node selected, puts a node event for it on the
\* queue.
C31_StageEntryEvent ==
    (pl.phase = "on" /\ pl.attached)
    => \A i \in 1..Len(pl.stages) : pl.stages[i] # "__end__" => StageEvent(pl.stages[i])

\* The run of the workflow on the request and the responses of the run p,
\* with no event queue in the state.
Unbridged(p) ==
    LET p1 == Gate(InitialState(FALSE, p.query), p.decision)
        p2 == Router(p1, p.answer)
        p3 == IF p2.pc = "feeder_agent_node" THEN Feeder(p2, "none", p.action)
              ELSE IF p2.pc \in ValidNodes THEN DeviceNode(p2, p2.pc)
              ELSE p2
    IN  Ended(p3)

Final(p) ==
    [ device_type |-> p.device_type, result |-> p.result, error |-> p.error,
      stages |-> p.stages ]

\* C32: on the same request and the same responses of the external calls, a
\* run with an event queue and a run without one end with the same device
\* type, result, error and sequence of stages.
C32_BridgeChangesNothing ==
    PlAt("returned") => Final(pl) = Final(Unbridged(pl))

\* A run with an event queue has returned after putting events.
C32_Witness ==
    /\ PlAt("returned")
    /\ pl.attached
    /\ Len(pl.events) >= 8
    /\ pl.decision = "advice"
    /\ pl.result = "answer"
    /\ Final(pl) = Final(Unbridged(pl))

NodeOfType(device_type) ==
    CASE device_type = "feeder" -> "feeder_agent_node"
      [] device_type = "camera" -> "camera_agent_node"
      [] device_type = "sensor" -> "sensor_agent_node"
      [] OTHER -> "none"

Selected(p) == IF Len(p.stages) >= 3 THEN p.stages[3] ELSE p.pc

\* C38: after the router the recorded device type names the device node the
\* run enters, feeder, camera or sensor, and is never unknown, whatever the
\* classification output is.
C38_DeviceTypeNamesStage ==
    (pl.phase = "on" /\ Len(pl.stages) >= 2)
    => /\ pl.device_type # "unknown"
       /\ NodeOfType(pl.device_type) = Selected(pl)

\* C40: an error recorded by the gate or the router is still in the final
\* state, also when the device node completed without raising, so the answer
\* of the endpoint reports success = false.
C40_EarlierErrorKept ==
    [][ (PlAt("__end__") /\ pl' # pl
         /\ (pl.decision = "raise" \/ RouterRaises(pl.answer)))
        => /\ ret'.op = "ainvoke"
           /\ ret'.error # "None"
           /\ ~ret'.success ]_vars

\* A run in which the gate raised and the feeder agent answered has returned.
C40_Witness ==
    /\ PlAt("returned")
    /\ pl.decision = "raise"
    /\ ~RouterRaises(pl.answer)
    /\ pl.action = "answer"
    /\ pl.error = "expert_gate_node"
    /\ ret.op = "ainvoke"
    /\ ~ret.success

(***************************************************************************)
(* Properties of the next-run computation.                                 *)
(***************************************************************************)
\* The time of day of a drawn datetime in the configured zone, by way of
\* the UTC instant it denotes.
UtcInstant(dt) == dt.wall - (IF dt.off = None THEN TzOffset ELSE dt.off)
ZonedTimeOfDay(dt) == (UtcInstant(dt) + TzOffset) % DayLen
AnchoredOn(dt, clock) == (clock \div DayLen) * DayLen + ZonedTimeOfDay(dt)

\* C8: for a `daily` job the next_run computed at construction and after a
\* firing is the scheduled time of day on the clock's date when that is
\* strictly after the clock, and that instant plus one day otherwise.
C8_DailyNextRun ==
    nr.phase \in {"constructed", "fired"} /\ nr.mode = "daily" =>
        nr.task.next_run =
            IF AnchoredOn(nr.dt, nr.clock) > nr.clock
            THEN AnchoredOn(nr.dt, nr.clock)
            ELSE AnchoredOn(nr.dt, nr.clock) + DayLen

\* A daily job whose time of day has passed on the day of the firing: the
\* next run is tomorrow's.
C8_Witness ==
    /\ nr.phase = "fired"
    /\ nr.mode = "daily"
    /\ nr.dt.off = 0
    /\ AnchoredOn(nr.dt, nr.clock) < nr.clock
    /\ nr.task.next_run = AnchoredOn(nr.dt, nr.clock) + DayLen

(***************************************************************************)
(* The stream of one request.                                              *)
(***************************************************************************)
FromStage(e) == e.n > 0
StageFrames == SelectSeq(st.out, FromStage)
Terminals ==
    {i \in DOMAIN st.out : st.out[i].node = "api" /\ st.out[i].type \in {"done", "error"}}
Completed == st.wf \in {"returned", "raised"}

\* C3: the events a run pushes are emitted once each, none dropped, in the
\* order of their pushes: at every moment what has been emitted followed by
\* what is still queued is what has been pushed, and when the stream of a
\* completed run ends everything pushed has been emitted.
C3_PushedEmittedInOrder ==
    st.phase = "on" =>
        /\ StageFrames \o st.queue = st.pushed
        /\ (st.gen = "end" /\ Completed) => StageFrames = st.pushed

C3_Witness ==
    /\ st.phase = "on"
    /\ st.gen = "end"
    /\ st.wf = "returned"
    /\ Len(st.pushed) >= 3
    /\ StageFrames = st.pushed

\* C4: a run gets one terminal event, never two and, once the stream has
\* ended, never none: `done` when workflow.ainvoke returned, `error` when it
\* raised.
C4_OneTerminalEvent ==
    st.phase = "on" =>
        /\ Cardinality(Terminals) <= 1
        /\ st.gen = "end" => Cardinality(Terminals) = 1
        /\ \A i \in Terminals :
              /\ st.wf = "returned" <=> st.out[i].type = "done"
              /\ st.wf = "raised" <=> st.out[i].type = "error"

C4_Witness ==
    /\ st.phase = "on"
    /\ st.gen = "end"
    /\ st.wf = "raised"
    /\ Len(st.pushed) > 0
    /\ \E i \in Terminals : st.out[i].type = "error"

\* C5: once the workflow task has completed, the consumer, if it keeps
\* being scheduled, emits the terminal event and the stream ends.
C5_StreamEnds ==
    (st.phase = "on" /\ Completed) ~> (st.gen = "end" /\ Terminals # {})

C5_Witness ==
    /\ st.phase = "on"
    /\ st.gen = "end"
    /\ st.workflow_done
    /\ st.queue = <<>>
    /\ st.out[Len(st.out)].node = "api"

\* C6: a stream is a `start` frame, then frames of a type other than `done`
\* and `error`, then one `done` or `error` frame; no frame follows a `done`
\* or `error` frame.
C6_StreamShape ==
    (st.phase = "on" /\ st.out # <<>>) =>
        /\ st.out[1].type = "start"
        /\ \A i \in 1..(Len(st.out) - 1) : st.out[i].type \notin {"done", "error"}
        /\ st.gen = "end" => st.out[Len(st.out)].type \in {"done", "error"}

\* C7: with the queue attached, every stage that failed has pushed an
\* `error` event, and that event is emitted before the terminal event.
C7_StageErrorEmitted ==
    (st.phase = "on" /\ st.attached /\ Terminals # {}) =>
        \A node \in st.failed :
            \E i \in DOMAIN st.out :
                /\ st.out[i].type = "error"
                /\ st.out[i].node = node
                /\ \A t \in Terminals : i < t

\* C34: the terminal event is emitted only after every event the workflow
\* pushed has been delivered: when a `done` or `error` frame of the endpoint
\* is out, nothing is left in the queue and no pushed event follows it.
C34_TerminalAfterAllEvents ==
    st.phase = "on" =>
        \A t \in Terminals :
            /\ st.queue = <<>>
            /\ \A i \in DOMAIN st.out : st.out[i].node # "api" => i < t

\* C36: when calls on the shared FeederService overlap, a call whose own
\* response was status 1 is never executed again by the wrapper: the status
\* 7 of another call never causes a second feed of a feed that succeeded.
C36_SuccessNotRepeated ==
    [][ (ret'.op = "feed" /\ ret'.first = "1")
        => /\ ret'.attempts = 1
           /\ ret'.relogins = 0 ]_vars

\* No pass of the tick loop and no execution is in progress, and no caller
\* holds the lock.
Quiescent ==
    /\ loopPc = "wait"
    /\ lock = "free"
    /\ \A e \in ExecIds : Finished(e)

\* C37: whenever no operation is in progress the job map and the persisted
\* records agree: every job in the map has a record with status pending, and
\* no record with status completed, failed or cancelled has a job in the map.
C37_JobsAgreeWithRecords ==
    Quiescent =>
        \A id \in Ids :
            /\ tasks[id] # 0 => db[id].status = "pending"
            /\ db[id].status \in {"completed", "failed", "cancelled"} => tasks[id] = 0

\* C35: while the action function of a job executes, for however long, the
\* lock is not held for it: the worker takes the execution without touching
\* the lock, and the tick loop goes on dispatching, so a job that is due and
\* not running is dispatched (or is no longer due) while the scheduler runs,
\* as long as the pool takes executions.
C35_SlowJobBlocksNothing ==
    /\ [][ (\E e \in ExecIds : execs[e].pc = "queued" /\ execs'[e].pc = "executing")
           => lock' = lock ]_vars
    /\ [](Executing # {} => lock \in {"free", "loop"})
    /\ \A id \in Ids :
           (DueNow(id) /\ ~objs[tasks[id]].is_running)
           ~> (~DueNow(id) \/ objs[tasks[id]].is_running \/ Len(execs) = MaxExecs)

\* The action of one job is still executing and the other job, due later,
\* has been dispatched.
C35_Witness ==
    /\ running
    /\ Len(execs) = 2
    /\ execs[1].pc = "executing"
    /\ execs[2].pc = "queued"
    /\ objs[execs[1].obj].task_id # objs[execs[2].obj].task_id
    /\ objs[execs[2].obj].last_run > objs[execs[1].obj].last_run

====
